---- MODULE Spec2Model ----
(***************************************************************************)
(* Sensor-data ingestion and inference pipeline of the damage lab backend. *)
(*                                                                         *)
(* Spec      : ingest_sensor_data as a state machine over one label        *)
(*             directory (chunk-ID allocation, chunk writing, metadata).   *)
(* SpecInfer : the chunk arithmetic of the ingestion path and of the       *)
(*             inference path (interpolate_raw_data, split_into_chunks,    *)
(*             process_chunks) on bounded inputs.                          *)
(*                                                                         *)
(* Durations of Spec are whole seconds; the float divisions of the code    *)
(* are the exact integer divisions they round to.                          *)
(***************************************************************************)
EXTENDS Integers, Sequences, FiniteSets, TLC

VARIABLES
    dir,               \* database/{label}/: chunk-file suffix -> written completely
    metadata,          \* database/{label}/metadata.json, or NoMetadata
    pc,                \* position of ingest_sensor_data
    runs,              \* number of ingest_sensor_data calls started so far
    append_mode,       \* APPEND_MODE, as configured for this process
    csv_files,         \* csv_files of the current call
    file_idx,          \* 1-based position of the for-loop over csv_files
    num_chunks,        \* num_chunks of the current source file
    chunk_i,           \* i of the inner loop
    chunk_counter,     \* chunk_counter
    starting_counter,  \* starting_counter
    pre_dir,           \* history: dir as the scan of Step 3 saw it
    written,           \* history: IDs of the chunks this call wrote completely
    file_log,          \* history: per source file, [status, chunks]
    imported,          \* history: source files the calls so far were given
    prev_run           \* history: summary of the call before the current one

ingestVars == <<dir, metadata, pc, runs, append_mode, csv_files,
                file_idx, num_chunks, chunk_i, chunk_counter, starting_counter,
                pre_dir, written, file_log, imported, prev_run>>

VARIABLES
    ipc,               \* position of the inference pipeline
    raw_n,             \* len(time) of the raw series
    raw_dt,            \* spacing of the raw series, in ticks
    time_interval,     \* db_time_interval, in ticks
    infer_cd,          \* chunk_duration, in ticks
    infer_pd,          \* padding_duration, in ticks
    sampling_rate,     \* target sampling rate, in samples per second
    ingest_count,      \* num_chunks as the ingestion path computes it
    coarse_len,        \* len(new_time) after interpolate_raw_data
    chunks,            \* result of split_into_chunks: [raised, list of slices]
    waveform_lens      \* lengths of the waveforms process_chunks returned

inferVars == <<ipc, raw_n, raw_dt, time_interval, infer_cd, infer_pd,
               sampling_rate, ingest_count, coarse_len, chunks, waveform_lens>>

VARIABLES
    ppc,               \* position of the chunk-padding code
    pad_site,          \* which code builds the chunk: "ingest" or "infer"
    data_values,       \* values_chunk, one value per sample of the data region
    padded,            \* time_with_padding / values_with_padding
    stage2,            \* interpolated_values of interpolate_chunk_to_1600hz
    normalized         \* normalize_data(interpolated_values)

padVars == <<ppc, pad_site, data_values, padded, stage2, normalized>>

VARIABLES
    dpc,               \* position of structure detection
    sample_file,       \* csv_files[0] as the detection reads it
    detector,          \* what the external detector does and answers
    structure,         \* the return value of detect_csv_structure
    columns            \* skip_rows, time_column, values_column, values_label of
                       \* ingest_sensor_data

detectVars == <<dpc, sample_file, detector, structure, columns>>

VARIABLES
    fpc,               \* position of the chunk-file round trip
    chunk_label,       \* classification_label, a string of characters
    chunk_rows,        \* interpolated_time / interpolated_values, in 1e-7
    chunk_file,        \* the lines of the chunk file
    read_back          \* the return value of process_csv_file

fileVars == <<fpc, chunk_label, chunk_rows, chunk_file, read_back>>

VARIABLES
    chunk_sizes,       \* st_size of the *.csv files of the label directory
    metadata_json,     \* content of metadata.json there, or NoMetadata
    meta_args,         \* the arguments of generate_database_metadata
    meta_calls,        \* history: per call, its result and the sizes it saw
    clock              \* datetime.now()

metaVars == <<chunk_sizes, metadata_json, meta_args, meta_calls, clock>>

VARIABLES
    requests,          \* per POST /api/ingest request: its label and how far it got
    label_dirs         \* the labels whose directory DATABASE_DIR / label exists

apiVars == <<requests, label_dirs>>

pipelineVars == <<ingestVars, inferVars, padVars, detectVars, fileVars, metaVars, apiVars>>

VARIABLES
    label_dir,         \* database/{label}/ under concurrent runs: suffix -> run that wrote it
    writers,           \* per ingestion run: its position, chunk_counter, chunks left
    overwritten,       \* history: suffixes of chunk files a later write replaced
    overlapped         \* history: a run scanned while another run was still writing

appendVars == <<label_dir, writers, overwritten, overlapped>>

VARIABLES
    training_jobs,     \* api.py training_jobs: job id -> status (the in-memory table)
    jobs_file,         \* training_jobs.json: job id -> status
    stop_requested,    \* _stop_requested: the job ids flagged for stopping
    trainer,           \* the thread of run_training_job: position, epoch, flags
    stopper,           \* the handler of POST /api/training/stop: position, calls
    agent,             \* the agent's job thread: updates done, its loaded copy
    cleanup,           \* _cleanup_training_jobs: position, its loaded copy
    latest,            \* history: job id -> the status its last update_job set
    deleted            \* history: the job ids _cleanup_training_jobs removed

jobVars == <<training_jobs, jobs_file, stop_requested, trainer, stopper, agent,
             cleanup, latest, deleted>>

VARIABLES
    csv_paths,         \* csv_paths of predict_batch: per file, its name and what it does
    batch_pos,         \* files of csv_paths the loop has been through
    results            \* results of predict_batch

batchVars == <<csv_paths, batch_pos, results>>

VARIABLES
    wall_clock,        \* datetime.now(), in clock readings
    test_index,        \* the master index file: list of test summaries
    metadata_files,    \* metadata/{test_id}.json: test id -> request that wrote it
    responses          \* per POST /api/tests/inference request: its response

testVars == <<wall_clock, test_index, metadata_files, responses>>

VARIABLES
    db_config,         \* configs.DB_TIME_INTERVAL, DB_CHUNK_DURATION, DB_PADDING_DURATION
    import_ok,         \* whether "from database_management import ingest_sensor_data" works
    ingest_runs        \* per run_ingestion call: position, request, saved originals,
                       \* and the values ingest_sensor_data chunked with

configVars == <<db_config, import_ok, ingest_runs>>

VARIABLES
    datasets,          \* database/: label -> source_folder of its metadata.json
    raw_dirs,          \* raw_database/: folder -> label whose ingestion copied it
    ingests,           \* ingest_sensor_data calls made so far
    foreign_removed,   \* history: raw folders removed by deleting another dataset
    kept_raw_removed   \* history: raw folders removed with delete_raw=False

deleteVars == <<datasets, raw_dirs, ingests, foreign_removed, kept_raw_removed>>

serviceVars == <<appendVars, jobVars, batchVars, testVars, configVars, deleteVars>>

vars == <<ingestVars, inferVars, padVars, detectVars, fileVars, metaVars, apiVars,
         serviceVars>>

-----------------------------------------------------------------------------
(* Bounds of the model *)

MaxFiles == 2          \* source CSV files imported over all calls
MaxRuns == 2           \* calls of ingest_sensor_data on the label
TicksPerSecond == 2    \* resolution of the durations of SpecInfer
MaxRawN == 8           \* samples of a raw series
MaxRawDt == 2          \* spacing of a raw series, in ticks
MaxInterval == 2       \* db_time_interval, in ticks
MaxChunkTicks == 4     \* chunk_duration, in ticks
MaxPadTicks == 1       \* padding_duration, in ticks
MaxRate == 3           \* target sampling rate, in Hz
MaxSeconds == 20       \* length of a raw series of SpecScenario, in seconds

(* Program constants *)

CHUNK_COUNTER_START == 1
DB_CHUNK_DURATION == 8 \* seconds; ingest_sensor_data's chunk_duration default
MIN_DATA_POINTS == 2
FilenameWidth == 4     \* the 04d of CHUNK_FILENAME_TEMPLATE

NoMetadata == [none |-> TRUE]
NoRun == [none |-> TRUE]

-----------------------------------------------------------------------------
(* Chunk file names: "{label}_{counter:04d}.csv" and int(stem.split('_')[-1]) *)

DigitChars == <<"0", "1", "2", "3", "4", "5", "6", "7", "8", "9">>

RECURSIVE DecDigits(_)
DecDigits(n) ==
    IF n < 10 THEN <<DigitChars[n + 1]>>
    ELSE Append(DecDigits(n \div 10), DigitChars[(n % 10) + 1])

RECURSIVE ZeroPad(_, _)
ZeroPad(s, w) == IF Len(s) >= w THEN s ELSE ZeroPad(<<"0">> \o s, w)

\* the suffix CHUNK_FILENAME_TEMPLATE gives to a counter >= 0
FormatCounter(n) == ZeroPad(DecDigits(n), FilenameWidth)

DigitValue(c) == CHOOSE v \in 0..9 : DigitChars[v + 1] = c

IsNumber(s) == Len(s) > 0 /\ \A k \in 1..Len(s) : \E v \in 0..9 : DigitChars[v + 1] = s[k]

RECURSIVE ParseDigits(_)
ParseDigits(s) ==
    IF Len(s) = 0 THEN 0
    ELSE 10 * ParseDigits(SubSeq(s, 1, Len(s) - 1)) + DigitValue(s[Len(s)])

\* a suffix a user left in the directory that int() rejects (ValueError)
ForeignSuffix == <<"c", "o", "p", "y">>

SetMax(S) == CHOOSE m \in S : \A x \in S : x <= m

\* existing_numbers of Step 3: the suffixes int() accepts
ExistingNumbers(d) == {ParseDigits(s) : s \in {t \in DOMAIN d : IsNumber(t)}}

\* the mutant of StartCounter that restarts at 1 whatever exists
StartCounterRestarts(append, d) == CHUNK_COUNTER_START

\* the mutant of StartCounter that continues after len(existing_files)
StartCounterByCount(append, d) ==
    IF append /\ DOMAIN d # {}
    THEN Cardinality(DOMAIN d) + 1
    ELSE CHUNK_COUNTER_START

\* Step 3: the chunk counter the call starts from
StartCounter(append, d) ==
    IF append /\ DOMAIN d # {}
    THEN IF ExistingNumbers(d) # {}
         THEN SetMax(ExistingNumbers(d)) + 1
         ELSE CHUNK_COUNTER_START
    ELSE CHUNK_COUNTER_START

-----------------------------------------------------------------------------
(* Source files *)

\* a source file: whether reading it raises, its rows, its mean time step (s)
Unreadable == [readable |-> FALSE, n |-> 0, dt |-> 0]

SourceFiles ==
    {Unreadable,
     [readable |-> TRUE, n |-> 1, dt |-> 1],
     [readable |-> TRUE, n |-> MIN_DATA_POINTS, dt |-> 0],
     [readable |-> TRUE, n |-> MIN_DATA_POINTS, dt |-> DB_CHUNK_DURATION + 1],
     [readable |-> TRUE, n |-> DB_CHUNK_DURATION - 1, dt |-> 1],
     [readable |-> TRUE, n |-> DB_CHUNK_DURATION + 1, dt |-> 1],
     [readable |-> TRUE, n |-> DB_CHUNK_DURATION + DB_CHUNK_DURATION, dt |-> 1]}

RECURSIVE SeqsUpTo(_, _)
SeqsUpTo(S, k) ==
    IF k = 0 THEN {<<>>}
    ELSE LET shorter == SeqsUpTo(S, k - 1)
         IN shorter \cup {Append(q, x) : q \in {r \in shorter : Len(r) = k - 1}, x \in S}

\* samples_per_chunk = int(chunk_duration * (1.0 / dt)), for dt > 0
SamplesPerChunk(cd, dt) == cd \div dt

\* the per-file validation of Step 4: the log status and num_chunks
FileChunks(f, cd) ==
    IF ~f.readable THEN [status |-> "error", chunks |-> 0]
    ELSE IF f.n < MIN_DATA_POINTS THEN [status |-> "skip", chunks |-> 0]
    ELSE IF f.dt <= 0 THEN [status |-> "skip", chunks |-> 0]
    ELSE IF SamplesPerChunk(cd, f.dt) <= 0 THEN [status |-> "skip", chunks |-> 0]
    ELSE IF f.n \div SamplesPerChunk(cd, f.dt) = 0 THEN [status |-> "skip", chunks |-> 0]
    ELSE [status |-> "ok", chunks |-> f.n \div SamplesPerChunk(cd, f.dt)]

\* the csv_files lists an import folder can give
FileBatches == SeqsUpTo(SourceFiles, MaxFiles)

-----------------------------------------------------------------------------
(* ingest_sensor_data *)

IngestInit ==
    /\ dir = << >>
    /\ metadata = NoMetadata
    /\ pc = "idle"
    /\ runs = 0
    /\ append_mode \in BOOLEAN
    /\ csv_files = << >>
    /\ file_idx = 0
    /\ num_chunks = 0
    /\ chunk_i = 0
    /\ chunk_counter = CHUNK_COUNTER_START
    /\ starting_counter = CHUNK_COUNTER_START
    /\ pre_dir = << >>
    /\ written = << >>
    /\ file_log = << >>
    /\ imported = 0
    /\ prev_run = NoRun

\* what stays known of a call once it has returned
RunSummary == [outcome |-> pc, nwritten |-> Len(written)]

\* lines 89-199: defaults, folder check, mkdir, csv_files, structure
StartRun(files, folder_exists) ==
    /\ pc = "idle"
    /\ runs < MaxRuns
    /\ imported + Len(files) <= MaxFiles
    /\ runs' = runs + 1
    /\ csv_files' = IF folder_exists THEN files ELSE << >>
    /\ imported' = imported + (IF folder_exists THEN Len(files) ELSE 0)
    /\ file_idx' = 0
    /\ num_chunks' = 0
    /\ chunk_i' = 0
    /\ chunk_counter' = CHUNK_COUNTER_START
    /\ starting_counter' = CHUNK_COUNTER_START
    /\ pre_dir' = << >>
    /\ written' = << >>
    /\ file_log' = << >>
    /\ pc' = IF ~folder_exists THEN "raised"
             ELSE IF files = << >> THEN "returned"
             ELSE "scan"
    /\ UNCHANGED <<dir, metadata, append_mode, prev_run>>

\* lines 201-225: Step 3, the chunk counter
ScanExisting ==
    /\ pc = "scan"
    /\ chunk_counter' = StartCounter(append_mode, dir)
    /\ starting_counter' = StartCounter(append_mode, dir)
    /\ pre_dir' = dir
    /\ file_idx' = 1
    /\ pc' = "file"
    /\ UNCHANGED <<dir, metadata, runs, append_mode, csv_files,
                   num_chunks, chunk_i, written, file_log, imported, prev_run>>

\* the for-loop moves on to the next source file, or to Step 5
AfterFile(idx) == IF idx >= Len(csv_files) THEN "meta" ELSE "file"

\* lines 236-262 and 333-335: read one source file and validate it
ReadFile ==
    /\ pc = "file"
    /\ LET r == FileChunks(csv_files[file_idx], DB_CHUNK_DURATION) IN
       IF r.status # "ok"
       THEN /\ file_log' = Append(file_log, r)
            /\ file_idx' = file_idx + 1
            /\ pc' = AfterFile(file_idx)
            /\ UNCHANGED <<num_chunks, chunk_i>>
       ELSE /\ num_chunks' = r.chunks
            /\ chunk_i' = 0
            /\ pc' = "chunk"
            /\ UNCHANGED <<file_log, file_idx>>
    /\ UNCHANGED <<dir, metadata, runs, append_mode, csv_files,
                   chunk_counter, starting_counter, pre_dir, written, imported, prev_run>>

\* the outcomes of open(output_path, 'w') followed by the writes
WriteOutcomes == {"ok", "open_failed", "write_failed"}

\* the label directory after one attempt to write the chunk with this counter
DirAfterWrite(d, counter, outcome) ==
    IF outcome = "open_failed" THEN d
    ELSE [s \in DOMAIN d \cup {FormatCounter(counter)} |->
            IF s = FormatCounter(counter) THEN outcome = "ok" ELSE d[s]]

\* the mutant of CounterAfterWrite that counts failed writes too
CounterAlwaysAdvances(counter, outcome) == counter + 1

\* the chunk counter after one attempt to write a chunk (line 328)
CounterAfterWrite(counter, outcome) ==
    IF outcome = "ok" THEN counter + 1 ELSE counter

\* lines 264-335: one iteration of the inner loop
WriteChunk(outcome) ==
    /\ pc = "chunk"
    /\ chunk_i < num_chunks
    /\ (chunk_i + 1) * SamplesPerChunk(DB_CHUNK_DURATION, csv_files[file_idx].dt)
          <= csv_files[file_idx].n
    /\ dir' = DirAfterWrite(dir, chunk_counter, outcome)
    /\ chunk_counter' = CounterAfterWrite(chunk_counter, outcome)
    /\ IF outcome = "ok"
       THEN /\ written' = Append(written, chunk_counter)
            /\ chunk_i' = chunk_i + 1
            /\ UNCHANGED <<file_log, file_idx, pc>>
       ELSE \* the exception leaves the inner loop: except Exception, next file
            /\ file_log' = Append(file_log, [status |-> "error", chunks |-> chunk_i])
            /\ file_idx' = file_idx + 1
            /\ pc' = AfterFile(file_idx)
            /\ UNCHANGED <<written, chunk_i>>
    /\ UNCHANGED <<metadata, runs, append_mode, csv_files,
                   num_chunks, starting_counter, pre_dir, imported, prev_run>>

\* lines 264-269 and 330-331: the inner loop ends, the file is logged
FinishFile ==
    /\ pc = "chunk"
    /\ \/ chunk_i >= num_chunks
       \/ (chunk_i + 1) * SamplesPerChunk(DB_CHUNK_DURATION, csv_files[file_idx].dt)
            > csv_files[file_idx].n
    /\ file_log' = Append(file_log, [status |-> "ok", chunks |-> chunk_i])
    /\ file_idx' = file_idx + 1
    /\ pc' = AfterFile(file_idx)
    /\ UNCHANGED <<dir, metadata, runs, append_mode, csv_files,
                   num_chunks, chunk_i, chunk_counter, starting_counter, pre_dir,
                   written, imported, prev_run>>

\* generate_database_metadata: the fields of the "dataset" block
DatabaseMetadata(files, total, first, last) ==
    [total_chunks |-> total,
     chunk_range |-> <<FormatCounter(first), FormatCounter(last)>>,
     source_files_count |-> Len(files)]

\* generate_database_metadata reads csv_files[0] again, outside any try
MetadataRaises(files) == ~files[1].readable

\* lines 337-369: Step 5
GenerateMetadata ==
    /\ pc = "meta"
    /\ IF MetadataRaises(csv_files)
       THEN /\ pc' = "raised"
            /\ UNCHANGED metadata
       ELSE /\ metadata' = DatabaseMetadata(csv_files, chunk_counter - starting_counter,
                                            starting_counter, chunk_counter - 1)
            /\ pc' = "done"
    /\ UNCHANGED <<dir, runs, append_mode, csv_files, file_idx,
                   num_chunks, chunk_i, chunk_counter, starting_counter, pre_dir,
                   written, file_log, imported, prev_run>>

\* ingest_sensor_data returns or raises: its locals are gone
Return ==
    /\ pc \in {"done", "raised", "returned"}
    /\ prev_run' = RunSummary
    /\ pc' = "idle"
    /\ csv_files' = << >>
    /\ file_idx' = 0
    /\ num_chunks' = 0
    /\ chunk_i' = 0
    /\ chunk_counter' = CHUNK_COUNTER_START
    /\ starting_counter' = CHUNK_COUNTER_START
    /\ pre_dir' = << >>
    /\ written' = << >>
    /\ file_log' = << >>
    /\ UNCHANGED <<dir, metadata, runs, append_mode, imported>>

\* a user leaves a copy of a chunk file in the label directory
DropForeignFile ==
    /\ pc = "idle"
    /\ ForeignSuffix \notin DOMAIN dir
    /\ dir' = [s \in DOMAIN dir \cup {ForeignSuffix} |->
                 IF s = ForeignSuffix THEN TRUE ELSE dir[s]]
    /\ UNCHANGED <<metadata, pc, runs, append_mode, csv_files,
                   file_idx, num_chunks, chunk_i, chunk_counter, starting_counter,
                   pre_dir, written, file_log, imported, prev_run>>

-----------------------------------------------------------------------------
(* The inference pipeline: testing/utils.py *)

CeilDiv(a, b) == (a + b - 1) \div b

\* len(np.arange(0, stop, step)) is ceil(stop / step) evaluated in floats: one
\* more than the exact value can come out when the exact quotient is whole
ArangeLens(stop, step) ==
    IF stop % step = 0 /\ stop > 0
    THEN {stop \div step, (stop \div step) + 1}
    ELSE {CeilDiv(stop, step)}

\* interpolate_raw_data: the lengths new_time can have, for n raw samples
\* spaced dt apart, on a grid of spacing ti
InterpolateRawLens(n, dt, ti) == ArangeLens((n - 1) * dt, ti)

RECURSIVE SplitLoop(_, _, _, _, _)
\* the for-loop of split_into_chunks, with its break
SplitLoop(i, num, s, n, acc) ==
    IF i >= num THEN acc
    ELSE IF (i + 1) * s > n THEN acc
    ELSE SplitLoop(i + 1, num, s, n, Append(acc, [start |-> i * s, stop |-> (i + 1) * s]))

Raised == [raised |-> TRUE, list |-> << >>]

\* the mutant of SplitIntoChunks that lacks the num_chunks == 0 check
SplitIntoChunksNoZeroCheck(n, ti, cd) ==
    IF n < 2 THEN Raised
    ELSE IF cd \div ti <= 0 THEN Raised
    ELSE [raised |-> FALSE, list |-> SplitLoop(0, n \div (cd \div ti), cd \div ti, n, << >>)]

\* split_into_chunks on a coarse series of n samples spaced ti apart
SplitIntoChunks(n, ti, cd) ==
    IF n < 2 THEN Raised                      \* dt is nan: int(nan) raises
    ELSE IF cd \div ti <= 0 THEN Raised       \* "Invalid chunk size"
    ELSE IF n \div (cd \div ti) = 0 THEN Raised  \* "Insufficient data for one chunk"
    ELSE [raised |-> FALSE, list |-> SplitLoop(0, n \div (cd \div ti), cd \div ti, n, << >>)]

\* expected_samples = int(total_duration * sampling_rate)
ExpectedSamples(cd, pd, rate) == ((cd + 2 * pd) * rate) \div TicksPerSecond

\* interpolate_chunk_to_1600hz: the lengths interpolated_time can have, the
\* grid np.arange(0, total_duration, 1.0 / sampling_rate)
Stage2Lens(cd, pd, rate) == ArangeLens((cd + 2 * pd) * rate, TicksPerSecond)

\* the mutant of FixLength that returns the waveform as resampled
FixLengthKeeps(len, expected) == len

\* process_chunks: "Ensure exact sample count"
FixLength(len, expected) ==
    IF len # expected
    THEN IF len > expected THEN expected       \* normalized[:expected_samples]
         ELSE len + (expected - len)           \* np.pad(normalized, (0, ...))
    ELSE len

InferInit ==
    /\ ipc = "start"
    /\ raw_n \in MIN_DATA_POINTS..MaxRawN
    /\ raw_dt \in 1..MaxRawDt
    /\ time_interval \in 1..MaxInterval
    /\ infer_cd \in 1..MaxChunkTicks
    /\ infer_pd \in 0..MaxPadTicks
    /\ sampling_rate \in 1..MaxRate
    /\ ingest_count = 0
    /\ coarse_len = 0
    /\ chunks = Raised
    /\ waveform_lens = << >>

\* 1600 Hz, the target rate, in samples per 0.01 s
SamplesPerCentisecond == 16

\* the pipeline on series sampled at 100 Hz, with the configuration of
\* InferenceConfig and its halved durations.  One tick is 0.01 s here, so
\* sampling_rate, which ProcessChunks takes per TicksPerSecond ticks, is
\* SamplesPerCentisecond * TicksPerSecond.
ScenarioInit ==
    /\ ipc = "start"
    /\ raw_n \in {100 * d : d \in 1..MaxSeconds}
    /\ raw_dt = 1
    /\ time_interval = 10
    /\ infer_cd \in {400, 800}
    /\ infer_pd \in {0, 50, 100}
    /\ sampling_rate = SamplesPerCentisecond * TicksPerSecond
    /\ ingest_count = 0
    /\ coarse_len = 0
    /\ chunks = Raised
    /\ waveform_lens = << >>

\* ingest_sensor_data lines 242-262 on the raw series
IngestCount ==
    /\ ipc = "start"
    /\ ingest_count' =
          FileChunks([readable |-> TRUE, n |-> raw_n, dt |-> raw_dt], infer_cd).chunks
    /\ ipc' = "stage1"
    /\ UNCHANGED <<raw_n, raw_dt, time_interval, infer_cd, infer_pd, sampling_rate,
                   coarse_len, chunks, waveform_lens>>

\* interpolate_raw_data
InterpolateRaw ==
    /\ ipc = "stage1"
    /\ \E len \in InterpolateRawLens(raw_n, raw_dt, time_interval) : coarse_len' = len
    /\ ipc' = "split"
    /\ UNCHANGED <<raw_n, raw_dt, time_interval, infer_cd, infer_pd, sampling_rate,
                   ingest_count, chunks, waveform_lens>>

\* split_into_chunks
SplitChunks ==
    /\ ipc = "split"
    /\ chunks' = SplitIntoChunks(coarse_len, time_interval, infer_cd)
    /\ ipc' = IF chunks'.raised THEN "failed" ELSE "stage2"
    /\ UNCHANGED <<raw_n, raw_dt, time_interval, infer_cd, infer_pd, sampling_rate,
                   ingest_count, coarse_len, waveform_lens>>

\* process_chunks
ProcessChunks ==
    /\ ipc = "stage2"
    /\ \E len \in Stage2Lens(infer_cd, infer_pd, sampling_rate) :
          waveform_lens' =
              [k \in 1..Len(chunks.list) |->
                  FixLength(len, ExpectedSamples(infer_cd, infer_pd, sampling_rate))]
    /\ ipc' = "done"
    /\ UNCHANGED <<raw_n, raw_dt, time_interval, infer_cd, infer_pd, sampling_rate,
                   ingest_count, coarse_len, chunks>>

-----------------------------------------------------------------------------
(* Padded chunks: ingest_sensor_data lines 271-303, split_into_chunks lines
   286-321, interpolate_chunk_to_1600hz.  Times are whole numbers of
   1 / padded.den ticks. *)

\* the values a sample of the data region takes
DataValues == {0 - 2, 0, 1}

NoChunk == [den |-> 1, nstart |-> 0, nend |-> 0, time |-> << >>, values |-> << >>]

\* ingest_sensor_data line 280
NumPaddingPoints(pd, ti) == IF pd \div ti > 2 THEN pd \div ti ELSE 2

\* np.linspace(start, stop, ...) with step (stop - start) / div: its first
\* num points, in units of 1 / div
Linspace(start, stop, num, div) ==
    [j \in 1..num |-> start * div + (j - 1) * (stop - start)]

\* the padded chunk ingest_sensor_data builds from samples spaced dt apart
IngestPadded(values, dt, cd, pd, ti) ==
    LET n == NumPaddingPoints(pd, ti)
        start_padding_time == Linspace(0, pd, n, n)
        data_time == [j \in 1..Len(values) |-> ((j - 1) * dt + pd) * n]
        end_padding_time == Linspace(pd + cd, cd + 2 * pd, n + 1, n)
    IN [den |-> n,
        nstart |-> Len(start_padding_time),
        nend |-> Len(end_padding_time),
        time |-> start_padding_time \o data_time \o end_padding_time,
        values |-> [j \in 1..n |-> 0] \o values \o [j \in 1..(n + 1) |-> 0]]

\* the padded chunk split_into_chunks builds from samples spaced ti apart,
\* when its two np.arange calls give nstart and nend points
InferPadded(values, ti, cd, pd, nstart, nend) ==
    [den |-> 1,
     nstart |-> nstart,
     nend |-> nend,
     time |-> [j \in 1..nstart |-> (j - 1) * ti]
              \o [j \in 1..Len(values) |-> (j - 1) * ti + pd]
              \o [j \in 1..nend |-> pd + cd + (j - 1) * ti],
     values |-> [j \in 1..nstart |-> 0] \o values \o [j \in 1..nend |-> 0]]

\* np.searchsorted(x, t), for t = tnum / tden
SearchSorted(x, tnum, tden) == Cardinality({j \in 1..Len(x) : x[j] * tden < tnum})

\* interp1d(x, y, kind='linear', bounds_error=False, fill_value=0.0) at
\* t = tnum / tden, as the fraction num / den (den > 0)
Interp1d(x, y, tnum, tden) ==
    IF tnum < x[1] * tden \/ tnum > x[Len(x)] * tden THEN [num |-> 0, den |-> 1]
    ELSE LET found == SearchSorted(x, tnum, tden)
             hi == IF found < 1 THEN 2 ELSE IF found > Len(x) - 1 THEN Len(x) ELSE found + 1
             lo == hi - 1
         IN [num |-> y[lo] * (x[hi] - x[lo]) * tden + (y[hi] - y[lo]) * (tnum - x[lo] * tden),
             den |-> (x[hi] - x[lo]) * tden]

\* interpolate_chunk_to_1600hz: the values on a grid of len points spaced
\* 1 / rate apart
InterpolateChunk(chunk, len, rate) ==
    [k \in 1..len |->
        Interp1d(chunk.time, chunk.values, (k - 1) * TicksPerSecond * chunk.den, rate)]

\* np.abs of the fraction v
Abs(v) == IF v.num < 0 THEN [num |-> 0 - v.num, den |-> v.den] ELSE v

\* the mutant of MaxAbs that leaves out np.abs
MaxWithoutAbs(data) ==
    CHOOSE m \in {data[k] : k \in 1..Len(data)} :
        \A k \in 1..Len(data) : data[k].num * m.den <= m.num * data[k].den

\* np.max(np.abs(data)), for a sequence of fractions with positive den
MaxAbs(data) ==
    CHOOSE m \in {Abs(data[k]) : k \in 1..Len(data)} :
        \A k \in 1..Len(data) : Abs(data[k]).num * m.den <= m.num * data[k].den

\* normalize_data: data / max_val, unless max_val == 0
NormalizeData(data) ==
    LET max_val == MaxAbs(data) IN
    IF max_val.num = 0 THEN data
    ELSE [k \in 1..Len(data) |->
             [num |-> data[k].num * max_val.den, den |-> data[k].den * max_val.num]]

\* one chunk of samples_per_chunk values and the durations it is padded with;
\* split_into_chunks gets the Stage-1 grid, whose spacing is time_interval
PadInit ==
    /\ ppc = "start"
    /\ pad_site \in {"ingest", "infer"}
    /\ ipc = "idle"
    /\ raw_n = 0
    /\ raw_dt \in 1..MaxRawDt
    /\ time_interval \in 1..MaxInterval
    /\ infer_cd \in 1..MaxChunkTicks
    /\ infer_pd \in 0..MaxPadTicks
    /\ sampling_rate \in 1..MaxRate
    /\ ingest_count = 0
    /\ coarse_len = 0
    /\ chunks = Raised
    /\ waveform_lens = << >>
    /\ pad_site = "infer" => raw_dt = time_interval
    /\ SamplesPerChunk(infer_cd, raw_dt) >= 1
    /\ data_values \in [1..SamplesPerChunk(infer_cd, raw_dt) -> DataValues]
    /\ padded = NoChunk
    /\ stage2 = << >>
    /\ normalized = << >>

\* the padding of one chunk, at either call site
BuildPadded ==
    /\ ppc = "start"
    /\ IF pad_site = "ingest"
       THEN padded' = IngestPadded(data_values, raw_dt, infer_cd, infer_pd, time_interval)
       ELSE \E nstart \in ArangeLens(infer_pd, time_interval),
               nend \in ArangeLens(infer_pd + time_interval, time_interval) :
               padded' = InferPadded(data_values, time_interval, infer_cd, infer_pd,
                                     nstart, nend)
    /\ ppc' = "padded"
    /\ UNCHANGED <<pad_site, data_values, stage2, normalized>>

\* process_chunks on the chunk: interpolate_chunk_to_1600hz, normalize_data
Resample ==
    /\ ppc = "padded"
    /\ pad_site = "infer"
    /\ \E len \in Stage2Lens(infer_cd, infer_pd, sampling_rate) :
          stage2' = InterpolateChunk(padded, len, sampling_rate)
    /\ normalized' = NormalizeData(stage2')
    /\ ppc' = "resampled"
    /\ UNCHANGED <<pad_site, data_values, padded>>

PadIdle ==
    /\ ppc = "idle"
    /\ pad_site = "infer"
    /\ data_values = << >>
    /\ padded = NoChunk
    /\ stage2 = << >>
    /\ normalized = << >>

-----------------------------------------------------------------------------
(* Structure detection: database_management/utils.py detect_csv_structure *)

MaxColumn == 2         \* largest column index of a sample file

ColumnCap == 100       \* "Cap at 100 rows", "Cap at column 100"

\* a field of the detector's JSON answer: absent, not convertible by int(),
\* or an integer
Missing == [kind |-> "missing", val |-> 0]

DetectorValues ==
    {Missing, [kind |-> "text", val |-> 0]}
    \cup {[kind |-> "int", val |-> n] : n \in {0 - 1, 0, 1, ColumnCap, ColumnCap + 1}}

\* values_label of the detector's answer: absent, blank, or a label
DetectorLabels == {"missing", " ", "Current(A)"}

\* the ways the detector gives no usable answer: exception, timeout, empty
\* response, answer that is not JSON, JSON that is not an object
DetectorFailures == {"unreachable", "timeout", "empty", "not_json", "not_object"}

NoStructure == [none |-> TRUE]

NoAnswer == [skip_rows |-> Missing, time_column |-> Missing,
             values_column |-> Missing, values_label |-> "missing"]

\* the "Ultimate fallback" of _smart_fallback_detection
HardDefault == [skip_rows |-> 0, time_column |-> 0, values_column |-> 1,
                values_label |-> "Value"]

SetMin(S) == CHOOSE m \in S : \A x \in S : m <= x

\* _smart_fallback_detection: the first skip in 0, 1, 2 at which the file
\* parses with two numeric columns or more, else the hard default
SmartFallbackDetection(file) ==
    LET good == {skip \in 0..2 : file.readable /\ Cardinality(file.numeric[skip + 1]) >= 2}
    IN IF good = {} THEN HardDefault
       ELSE LET skip == SetMin(good)
                numeric_cols == file.numeric[skip + 1]
                time_col == SetMin(numeric_cols)
            IN [skip_rows |-> skip,
                time_column |-> time_col,
                values_column |-> SetMin(numeric_cols \ {time_col}),
                values_label |-> "Value"]

\* max(0, min(v, 100))
Clamp(v) == IF v > ColumnCap THEN ColumnCap ELSE IF v < 0 THEN 0 ELSE v

\* structure.get(key, default) followed by int(): the integer, or not ok
\* when int() raises ValueError or TypeError
GetInt(v, default) ==
    IF v.kind = "missing" THEN [ok |-> TRUE, val |-> default]
    ELSE IF v.kind = "text" THEN [ok |-> FALSE, val |-> 0]
    ELSE [ok |-> TRUE, val |-> v.val]

\* the mutant of ValidateStructure that leaves a collision of the columns
ValidateStructureNoAdjust(answer) ==
    LET skip_rows == GetInt(answer.skip_rows, 0)
        time_col == GetInt(answer.time_column, 0)
        values_col == GetInt(answer.values_column, 1)
        time_column == IF time_col.ok THEN Clamp(time_col.val) ELSE 0
    IN [skip_rows |-> IF skip_rows.ok THEN Clamp(skip_rows.val) ELSE 0,
        time_column |-> time_column,
        values_column |-> IF values_col.ok THEN Clamp(values_col.val)
                          ELSE IF time_column # 1 THEN 1 ELSE 0,
        values_label |-> IF answer.values_label \in {"missing", " "} THEN "Value"
                         ELSE answer.values_label]

\* _validate_structure
ValidateStructure(answer) ==
    LET skip_rows == GetInt(answer.skip_rows, 0)
        time_col == GetInt(answer.time_column, 0)
        values_col == GetInt(answer.values_column, 1)
        time_column == IF time_col.ok THEN Clamp(time_col.val) ELSE 0
    IN [skip_rows |-> IF skip_rows.ok THEN Clamp(skip_rows.val) ELSE 0,
        time_column |-> time_column,
        values_column |-> IF values_col.ok
                          THEN IF Clamp(values_col.val) = time_column
                               THEN time_column + 1
                               ELSE Clamp(values_col.val)
                          ELSE IF time_column # 1 THEN 1 ELSE 0,
        values_label |-> IF answer.values_label \in {"missing", " "} THEN "Value"
                         ELSE answer.values_label]

\* the mutant of DetectCsvStructure that lets the detector's exception out
DetectCsvStructureRaises(file, det) ==
    IF det.kind = "answer" /\ file.readable THEN ValidateStructure(det.answer)
    ELSE IF det.kind \in DetectorFailures /\ file.readable THEN [raised |-> TRUE]
    ELSE SmartFallbackDetection(file)

\* detect_csv_structure
DetectCsvStructure(file, det) ==
    IF ~file.readable THEN SmartFallbackDetection(file)
    ELSE IF det.kind = "no_key" THEN SmartFallbackDetection(file)
    ELSE IF det.kind \in DetectorFailures THEN SmartFallbackDetection(file)
    ELSE ValidateStructure(det.answer)

\* the sample files: unreadable, or the numeric columns at skip 0, 1, 2
SampleFiles ==
    {[readable |-> FALSE, numeric |-> <<{}, {}, {}>>]}
    \cup {[readable |-> TRUE, numeric |-> <<a, b, c>>] :
             a \in SUBSET (0..MaxColumn), b \in SUBSET (0..MaxColumn),
             c \in SUBSET (0..MaxColumn)}

DetectInit ==
    /\ dpc = "start"
    /\ \/ /\ detector \in [kind : {"no_key"} \cup DetectorFailures, answer : {NoAnswer}]
          /\ sample_file \in SampleFiles
       \/ /\ detector \in [kind : {"answer"},
                            answer : [skip_rows : DetectorValues,
                                      time_column : DetectorValues,
                                      values_column : DetectorValues,
                                      values_label : DetectorLabels]]
          /\ sample_file \in {f \in SampleFiles : \A k \in 1..3 : f.numeric[k] = {}}
    /\ structure = NoStructure
    /\ columns = NoStructure

\* ingest_sensor_data line 166: structure = detect_csv_structure(csv_files[0])
Detect ==
    /\ dpc = "start"
    /\ structure' = DetectCsvStructure(sample_file, detector)
    /\ dpc' = "detected"
    /\ UNCHANGED <<sample_file, detector, columns>>

\* ingest_sensor_data lines 167-191: the columns Step 4 reads with
UseStructure ==
    /\ dpc = "detected"
    /\ columns' = IF "raised" \in DOMAIN structure THEN HardDefault ELSE structure
    /\ dpc' = "step3"
    /\ UNCHANGED <<sample_file, detector, structure>>

DetectIdle ==
    /\ dpc = "idle"
    /\ sample_file = [readable |-> FALSE, numeric |-> <<{}, {}, {}>>]
    /\ detector = [kind |-> "no_key", answer |-> NoAnswer]
    /\ structure = NoStructure
    /\ columns = NoStructure

-----------------------------------------------------------------------------
(* The chunk file: ingest_sensor_data lines 322-326 writes it,
   training/tools.py process_csv_file reads it *)

MaxRows == 3           \* data rows of a chunk file

\* f"{x:.6f}": x, given in 1e-7, to the nearest 1e-6, ties to even
Format6(x) ==
    LET q == x \div 10
        r == x % 10
    IN IF r < 5 THEN q ELSE IF r > 5 THEN q + 1 ELSE IF q % 2 = 0 THEN q ELSE q + 1

\* the lines ingest_sensor_data writes: label, column header, data rows
ChunkFileLines(label, values_label, rows) ==
    <<[text |-> label \o <<"\n">>], [text |-> <<"Time(s)", ",", values_label, "\n">>]>>
    \o [k \in 1..Len(rows) |-> [t |-> Format6(rows[k].t), v |-> Format6(rows[k].v)]]

RECURSIVE Strip(_)
\* str.strip()
Strip(text) ==
    IF text = << >> THEN text
    ELSE IF Head(text) \in {" ", "\n"} THEN Strip(Tail(text))
    ELSE IF text[Len(text)] \in {" ", "\n"} THEN Strip(SubSeq(text, 1, Len(text) - 1))
    ELSE text

\* pd.read_csv(file_path, skiprows=skiprows).values: the lines after the
\* skipped ones and after the header line that names the columns
ReadCsvValues(lines, skiprows) == SubSeq(lines, skiprows + 2, Len(lines))

\* the mutant of ProcessCsvFile that skips the label and the header line
\* before pandas takes its header line
ProcessCsvFileSkipsTwo(lines) ==
    [label |-> Strip(lines[1].text), pairs |-> ReadCsvValues(lines, 2)]

\* process_csv_file
ProcessCsvFile(lines) ==
    [label |-> Strip(lines[1].text), pairs |-> ReadCsvValues(lines, 1)]

NoFile == << >>

FileInit ==
    /\ fpc = "start"
    /\ chunk_label \in {<<"a">>, <<"a", " ", "b">>}
    /\ chunk_rows \in UNION {[1..n -> [t : {0, 10}, v : {0, 5, 15}]] : n \in 1..MaxRows}
    /\ chunk_file = NoFile
    /\ read_back = [label |-> << >>, pairs |-> << >>]

\* ingest_sensor_data lines 322-326
WriteChunkFile ==
    /\ fpc = "start"
    /\ \E values_label \in {"Value", "Current(A)"} :
          chunk_file' = ChunkFileLines(chunk_label, values_label, chunk_rows)
    /\ fpc' = "written"
    /\ UNCHANGED <<chunk_label, chunk_rows, read_back>>

\* read_csv_files calls process_csv_file on the chunk file
ReadChunkFile ==
    /\ fpc = "written"
    /\ read_back' = ProcessCsvFile(chunk_file)
    /\ fpc' = "read"
    /\ UNCHANGED <<chunk_label, chunk_rows, chunk_file>>

FileIdle ==
    /\ fpc = "idle"
    /\ chunk_label = << >>
    /\ chunk_rows = << >>
    /\ chunk_file = NoFile
    /\ read_back = [label |-> << >>, pairs |-> << >>]

-----------------------------------------------------------------------------
(* Metadata: generate_database_metadata and save_metadata *)

MaxMetaCalls == 3      \* calls of generate_database_metadata
MaxChunkFiles == 2     \* chunk files in the label directory

RECURSIVE FolderSizeOfAllFiles(_, _)
\* the mutant of FolderSizeBytes that counts metadata.json as well
FolderSizeOfAllFiles(sizes, meta) ==
    IF sizes = << >> THEN (IF meta = NoMetadata THEN 0 ELSE 1)
    ELSE Head(sizes) + FolderSizeOfAllFiles(Tail(sizes), meta)

RECURSIVE FolderSizeBytes(_, _)
\* sum(f.stat().st_size for f in database_label_dir.glob("*.csv"))
FolderSizeBytes(sizes, meta) ==
    IF sizes = << >> THEN 0 ELSE Head(sizes) + FolderSizeBytes(Tail(sizes), meta)

\* generate_database_metadata, on a label directory with these chunk sizes
\* and this metadata.json, at the time now
GenerateDatabaseMetadata(args, sizes, meta, now) ==
    [generated_at |-> now,
     classification_label |-> args.label,
     dataset |-> DatabaseMetadata(args.csv_files, args.total_chunks,
                                  args.chunk_range[1], args.chunk_range[2]),
     folder_size_bytes |-> FolderSizeBytes(sizes, meta)]

MetaInit ==
    /\ chunk_sizes = << >>
    /\ metadata_json = NoMetadata
    /\ meta_args \in [label : {"a"},
                       csv_files : {f \in FileBatches : Len(f) = 1 /\ f[1].readable},
                       total_chunks : 0..MaxChunkFiles,
                       chunk_range : {<<1, 0>>, <<1, MaxChunkFiles>>}]
    /\ meta_calls = << >>
    /\ clock = 0

\* one call of generate_database_metadata
GenerateMetadataCall ==
    /\ Len(meta_calls) < MaxMetaCalls
    /\ meta_calls' = Append(meta_calls,
          [result |-> GenerateDatabaseMetadata(meta_args, chunk_sizes, metadata_json, clock),
           sizes |-> chunk_sizes])
    /\ clock' = clock + 1
    /\ UNCHANGED <<chunk_sizes, metadata_json, meta_args>>

\* save_metadata on the latest result
SaveMetadata ==
    /\ meta_calls # << >>
    /\ metadata_json' = meta_calls[Len(meta_calls)].result
    /\ UNCHANGED <<chunk_sizes, meta_args, meta_calls, clock>>

\* another ingestion adds a chunk file to the label directory
AddChunkFile ==
    /\ Len(chunk_sizes) < MaxChunkFiles
    /\ Len(meta_calls) < MaxMetaCalls
    /\ \E size \in 1..2 : chunk_sizes' = Append(chunk_sizes, size)
    /\ UNCHANGED <<metadata_json, meta_args, meta_calls, clock>>

MetaIdle ==
    /\ chunk_sizes = << >>
    /\ metadata_json = NoMetadata
    /\ meta_args = NoRun
    /\ meta_calls = << >>
    /\ clock = 0

-----------------------------------------------------------------------------
(* POST /api/ingest: api.py ingest_data and its background task run_ingestion *)

MaxRequests == 3       \* requests sent to POST /api/ingest

ApiLabels == {"a", "b"}

ApiInit ==
    /\ requests \in [1..MaxRequests -> [label : ApiLabels, state : {"sent"}]]
    /\ label_dirs \in SUBSET ApiLabels

\* ingest_data: the handler, which has no await and so runs without
\* interruption; it rejects an existing label, else schedules run_ingestion
IngestData(r) ==
    /\ requests[r].state = "sent"
    /\ requests' = [requests EXCEPT ![r].state =
                        IF requests[r].label \in label_dirs THEN "rejected" ELSE "scheduled"]
    /\ UNCHANGED label_dirs

\* the background task starts on a worker thread: run_ingestion calls
\* ingest_sensor_data, whose mkdir(exist_ok=True) creates the label directory
RunIngestion(r) ==
    /\ requests[r].state = "scheduled"
    /\ requests' = [requests EXCEPT ![r].state = "running"]
    /\ label_dirs' = label_dirs \cup {requests[r].label}

\* ingest_sensor_data returns or raises
FinishIngestion(r) ==
    /\ requests[r].state = "running"
    /\ requests' = [requests EXCEPT ![r].state = "finished"]
    /\ UNCHANGED label_dirs

ApiIdle ==
    /\ requests = << >>
    /\ label_dirs = {}

InferIdle ==
    /\ ipc = "idle"
    /\ raw_n = 0
    /\ raw_dt = 0
    /\ time_interval = 0
    /\ infer_cd = 0
    /\ infer_pd = 0
    /\ sampling_rate = 0
    /\ ingest_count = 0
    /\ coarse_len = 0
    /\ chunks = Raised
    /\ waveform_lens = << >>

\* no ingestion runs while the inference pipeline is examined
IngestIdle ==
    /\ dir = << >>
    /\ metadata = NoMetadata
    /\ pc = "idle"
    /\ runs = 0
    /\ append_mode = TRUE
    /\ csv_files = << >>
    /\ file_idx = 0
    /\ num_chunks = 0
    /\ chunk_i = 0
    /\ chunk_counter = CHUNK_COUNTER_START
    /\ starting_counter = CHUNK_COUNTER_START
    /\ pre_dir = << >>
    /\ written = << >>
    /\ file_log = << >>
    /\ imported = 0
    /\ prev_run = NoRun

PipelineIdle ==
    IngestIdle /\ InferIdle /\ PadIdle /\ DetectIdle /\ FileIdle /\ MetaIdle /\ ApiIdle

-----------------------------------------------------------------------------
(* Concurrent append-mode runs of ingest_sensor_data on one label *)

MaxWriters == 2        \* ingestion runs on the label
MaxAppendChunks == 2   \* chunks one run writes

IdleWriter == [pc |-> "idle", start |-> 0, counter |-> 0, todo |-> 0]

\* the label directory before the runs: empty, or left by an earlier run (0)
AppendInit ==
    /\ label_dir \in {<< >>, (FormatCounter(1) :> 0)}
    /\ writers = [w \in 1..MaxWriters |-> IdleWriter]
    /\ overwritten = {}
    /\ overlapped = FALSE

\* Step 3 of run w: glob the label directory and take the starting counter;
\* the run will write n chunks
AppendScan(w, n) ==
    /\ writers[w].pc = "idle"
    /\ writers' = [writers EXCEPT ![w] =
                       [pc |-> "writing", start |-> StartCounter(TRUE, label_dir),
                        counter |-> StartCounter(TRUE, label_dir), todo |-> n]]
    /\ overlapped' = (overlapped \/ \E o \in 1..MaxWriters : writers[o].pc = "writing")
    /\ UNCHANGED <<label_dir, overwritten>>

\* run w writes its next chunk: open(output_path, 'w') replaces an existing file
AppendWrite(w) ==
    /\ writers[w].pc = "writing"
    /\ writers[w].todo > 0
    /\ label_dir' = [s \in DOMAIN label_dir \cup {FormatCounter(writers[w].counter)} |->
                        IF s = FormatCounter(writers[w].counter) THEN w ELSE label_dir[s]]
    /\ overwritten' = IF FormatCounter(writers[w].counter) \in DOMAIN label_dir
                      THEN overwritten \cup {FormatCounter(writers[w].counter)}
                      ELSE overwritten
    /\ writers' = [writers EXCEPT ![w].counter = @ + 1, ![w].todo = @ - 1]
    /\ UNCHANGED overlapped

\* run w has written all its chunks and returns
AppendReturn(w) ==
    /\ writers[w].pc = "writing"
    /\ writers[w].todo = 0
    /\ writers' = [writers EXCEPT ![w].pc = "done"]
    /\ UNCHANGED <<label_dir, overwritten, overlapped>>

AppendIdle ==
    /\ label_dir = << >>
    /\ writers = << >>
    /\ overwritten = {}
    /\ overlapped = FALSE

-----------------------------------------------------------------------------
(* Training jobs: api.py run_training_job / stop_training, the agent's      *)
(* start_training thread and delete_model's _cleanup_training_jobs, all on   *)
(* training_jobs.json                                                        *)

MaxEpochs == 2         \* total_epochs of the training run
MaxStops == 1          \* calls of POST /api/training/stop
MaxAgentUpdates == 2   \* update_job calls of the agent's job thread

ApiJob == "j1"         \* the job started by POST /api/training/start
AgentJob == "j2"       \* the job started by the agent's start_training

RunningStatuses == {"pending", "preparing", "building", "training"}
TerminalStatuses == {"complete", "error"}

\* the statuses the agent's update_job calls set, in order
AgentUpdates == <<"preparing", "building", "training", "complete">>

\* the update_job calls of run_training_job before run_training: position,
\* next position, status set ("" for the update of total_epochs alone)
JobSteps ==
    << [from |-> "start", to |-> "preparing", status |-> "preparing"],
       [from |-> "preparing", to |-> "configured", status |-> ""],
       [from |-> "configured", to |-> "building", status |-> "building"],
       [from |-> "building", to |-> "fit", status |-> "training"] >>

Put(f, k, v) == [x \in DOMAIN f \cup {k} |-> IF x = k THEN v ELSE f[x]]

Without(f, S) == [x \in DOMAIN f \ S |-> f[x]]

\* after start_training of api.py and then of the agent: the API job is in
\* the table and in the file, the agent's job in the file only
JobsInit ==
    /\ training_jobs = (ApiJob :> "pending")
    /\ jobs_file = (ApiJob :> "pending") @@ (AgentJob :> "pending")
    /\ stop_requested = {}
    /\ trainer \in [pc : {"start"}, epoch : {0}, total_epochs : 1..MaxEpochs,
                     stop_training : {FALSE}, unsaved : {FALSE}]
    /\ stopper = [pc |-> "idle", calls |-> 0]
    /\ agent = [done |-> 0, loaded |-> FALSE, jobs |-> << >>]
    /\ cleanup = [pc |-> "idle", jobs |-> << >>]
    /\ latest = jobs_file
    /\ deleted = {}

\* update_job of run_training_job, first half: training_jobs[job_id].update
\* under the lock; the save that follows is SaveJobs
SetStatus(status) ==
    /\ training_jobs' = IF status = "" THEN training_jobs
                        ELSE [training_jobs EXCEPT ![ApiJob] = status]
    /\ latest' = IF status = "" THEN latest ELSE Put(latest, ApiJob, status)

\* update_job, second half: _save_training_jobs(training_jobs) dumps the whole
\* table to the file under the lock
SaveJobs ==
    /\ trainer.unsaved
    /\ jobs_file' = training_jobs
    /\ trainer' = [trainer EXCEPT !.unsaved = FALSE]
    /\ UNCHANGED <<training_jobs, stop_requested, stopper, agent, cleanup, latest, deleted>>

\* the update_job calls before run_training
UpdateJobStep(k) ==
    /\ ~trainer.unsaved
    /\ trainer.pc = JobSteps[k].from
    /\ SetStatus(JobSteps[k].status)
    /\ trainer' = [trainer EXCEPT !.pc = JobSteps[k].to, !.unsaved = TRUE]
    /\ UNCHANGED <<jobs_file, stop_requested, stopper, agent, cleanup, deleted>>

\* EpochProgressCallback.on_epoch_begin
EpochBegin ==
    /\ ~trainer.unsaved
    /\ trainer.pc = "fit"
    /\ IF ApiJob \in stop_requested
       THEN /\ SetStatus("error")
            /\ trainer' = [trainer EXCEPT !.pc = "epoch", !.stop_training = TRUE,
                                          !.unsaved = TRUE]
       ELSE /\ SetStatus("")
            /\ trainer' = [trainer EXCEPT !.pc = "epoch", !.unsaved = TRUE]
    /\ UNCHANGED <<jobs_file, stop_requested, stopper, agent, cleanup, deleted>>

\* EpochProgressCallback.on_epoch_end, then the end of the epoch in fit: the
\* loop ends when model.stop_training is set or the epochs are used up
EpochEnd ==
    /\ ~trainer.unsaved
    /\ trainer.pc = "epoch"
    /\ SetStatus("")
    /\ trainer' =
         [trainer EXCEPT
            !.epoch = @ + 1,
            !.stop_training = @ \/ ApiJob \in stop_requested,
            !.unsaved = TRUE,
            !.pc = IF trainer.stop_training \/ ApiJob \in stop_requested
                      \/ trainer.epoch + 1 >= trainer.total_epochs
                   THEN "fit_done" ELSE "fit"]
    /\ UNCHANGED <<jobs_file, stop_requested, stopper, agent, cleanup, deleted>>

\* run_training has returned: update_job({"status": "complete", ...})
Complete ==
    /\ ~trainer.unsaved
    /\ trainer.pc = "fit_done"
    /\ SetStatus("complete")
    /\ trainer' = [trainer EXCEPT !.pc = "finally", !.unsaved = TRUE]
    /\ UNCHANGED <<jobs_file, stop_requested, stopper, agent, cleanup, deleted>>

\* except Exception: no data for the labels, or run_training raises
RaiseError ==
    /\ ~trainer.unsaved
    /\ trainer.pc \in {"preparing", "epoch", "fit_done"}
    /\ SetStatus("error")
    /\ trainer' = [trainer EXCEPT !.pc = "finally", !.unsaved = TRUE]
    /\ UNCHANGED <<jobs_file, stop_requested, stopper, agent, cleanup, deleted>>

\* finally: _stop_requested.pop(job_id, None)
Finally ==
    /\ ~trainer.unsaved
    /\ trainer.pc = "finally"
    /\ stop_requested' = stop_requested \ {ApiJob}
    /\ trainer' = [trainer EXCEPT !.pc = "done"]
    /\ UNCHANGED <<training_jobs, jobs_file, stopper, agent, cleanup, latest, deleted>>

\* stop_training: the status test that accepts or refuses the request
StopCheck ==
    /\ stopper.pc \in {"idle", "refused", "returned"}
    /\ stopper.calls < MaxStops
    /\ stopper' = [pc |-> IF training_jobs[ApiJob] \in RunningStatuses
                          THEN "accepted" ELSE "refused",
                   calls |-> stopper.calls + 1]
    /\ UNCHANGED <<training_jobs, jobs_file, stop_requested, trainer, agent, cleanup,
                   latest, deleted>>

\* stop_training: _stop_requested[job_id] = True and the progress message
StopFlag ==
    /\ stopper.pc = "accepted"
    /\ stop_requested' = stop_requested \cup {ApiJob}
    /\ stopper' = [stopper EXCEPT !.pc = "flagged"]
    /\ UNCHANGED <<training_jobs, jobs_file, trainer, agent, cleanup, latest, deleted>>

\* stop_training: _save_training_jobs(training_jobs)
StopSave ==
    /\ stopper.pc = "flagged"
    /\ jobs_file' = training_jobs
    /\ stopper' = [stopper EXCEPT !.pc = "returned"]
    /\ UNCHANGED <<training_jobs, stop_requested, trainer, agent, cleanup, latest, deleted>>

\* the agent's update_job, first half: jobs = _load_training_jobs(), no lock
AgentLoad ==
    /\ ~agent.loaded
    /\ agent.done < MaxAgentUpdates
    /\ agent.done < Len(AgentUpdates)
    /\ agent' = [agent EXCEPT !.loaded = TRUE, !.jobs = jobs_file]
    /\ UNCHANGED <<training_jobs, jobs_file, stop_requested, trainer, stopper, cleanup,
                   latest, deleted>>

\* the agent's update_job, second half: if job_id in jobs, update and save
AgentSave ==
    /\ agent.loaded
    /\ jobs_file' = IF AgentJob \in DOMAIN agent.jobs
                    THEN [agent.jobs EXCEPT ![AgentJob] = AgentUpdates[agent.done + 1]]
                    ELSE jobs_file
    /\ latest' = Put(latest, AgentJob, AgentUpdates[agent.done + 1])
    /\ agent' = [done |-> agent.done + 1, loaded |-> FALSE, jobs |-> << >>]
    /\ UNCHANGED <<training_jobs, stop_requested, trainer, stopper, cleanup, deleted>>

\* _cleanup_training_jobs of a trained model, first half: json.load, no lock
CleanupLoad ==
    /\ cleanup.pc = "idle"
    /\ trainer.pc = "done"
    /\ ApiJob \in DOMAIN jobs_file
    /\ cleanup' = [pc |-> "loaded", jobs |-> jobs_file]
    /\ UNCHANGED <<training_jobs, jobs_file, stop_requested, trainer, stopper, agent,
                   latest, deleted>>

\* _cleanup_training_jobs, second half: the jobs of the model are dropped
\* from the loaded copy, which is written back
CleanupSave ==
    /\ cleanup.pc = "loaded"
    /\ jobs_file' = Without(cleanup.jobs, {ApiJob})
    /\ deleted' = deleted \cup {ApiJob}
    /\ cleanup' = [pc |-> "done", jobs |-> << >>]
    /\ UNCHANGED <<training_jobs, stop_requested, trainer, stopper, agent, latest>>

JobsIdle ==
    /\ training_jobs = << >>
    /\ jobs_file = << >>
    /\ stop_requested = {}
    /\ trainer = << >>
    /\ stopper = << >>
    /\ agent = << >>
    /\ cleanup = << >>
    /\ latest = << >>
    /\ deleted = {}

-----------------------------------------------------------------------------
(* predict_batch of testing/inference.py *)

MaxBatch == 3          \* len(csv_paths)

\* what predict_from_csv does on a file: returns, or raises in
\* process_csv_for_inference, in predict, or in log_test
BatchOutcomes == {"ok", "process_raises", "predict_raises", "log_raises"}

BatchFiles == [name : {"a", "b"}, outcome : BatchOutcomes]

BatchInit ==
    /\ csv_paths \in SeqsUpTo(BatchFiles, MaxBatch)
    /\ batch_pos = 0
    /\ results = << >>

\* the mutant of ResultsAfter that leaves a raising file out of the results
ResultsAfterSkipsErrors(res, file) ==
    IF file.outcome = "ok"
    THEN Append(res, [status |-> "ok", error |-> "", source_file |-> file.name])
    ELSE res

\* one pass of the loop body: the InferenceResult of the file, or, under
\* except Exception, the error dict with str(e) and str(csv_path)
ResultsAfter(res, file) ==
    IF file.outcome = "ok"
    THEN Append(res, [status |-> "ok", error |-> "", source_file |-> file.name])
    ELSE Append(res, [status |-> "error", error |-> file.outcome,
                      source_file |-> file.name])

\* for i, csv_path in enumerate(csv_paths): one file
PredictOne ==
    /\ batch_pos < Len(csv_paths)
    /\ results' = ResultsAfter(results, csv_paths[batch_pos + 1])
    /\ batch_pos' = batch_pos + 1
    /\ UNCHANGED csv_paths

\* return results
PredictBatchReturn ==
    /\ batch_pos = Len(csv_paths)
    /\ batch_pos' = Len(csv_paths) + 1
    /\ UNCHANGED <<csv_paths, results>>

BatchIdle ==
    /\ csv_paths = << >>
    /\ batch_pos = 0 - 1
    /\ results = << >>

-----------------------------------------------------------------------------
(* TestDatabase.log_test / list_tests and POST /api/tests/inference *)

MaxNow == 6            \* clock readings
ReadingsPerSecond == 2 \* clock readings that fall in one second
MaxTestRequests == 3   \* requests sent to POST /api/tests/inference

NoResponse == [handled |-> FALSE, logged |-> FALSE, test_id |-> 0 - 1]

\* _generate_test_id: strftime("%Y%m%d_%H%M%S"), the reading cut to its second
GenerateTestId(t) == t \div ReadingsPerSecond

\* the test database before the requests: empty, or one older test
TestsInit ==
    /\ wall_clock = ReadingsPerSecond
    /\ test_index \in {<< >>, << [test_id |-> 0, timestamp |-> 0, request |-> 0] >>}
    /\ metadata_files = [id \in {test_index[k].test_id : k \in DOMAIN test_index} |-> 0]
    /\ responses = [r \in 1..MaxTestRequests |-> NoResponse]

\* the mutant of ListTestsFirst that sorts oldest first
ListTestsOldestFirst(index) ==
    index[CHOOSE i \in DOMAIN index :
            \A j \in DOMAIN index :
                \/ index[j].timestamp > index[i].timestamp
                \/ (index[j].timestamp = index[i].timestamp /\ i <= j)]

\* list_tests(limit=1)[0]: the stable sort by timestamp, most recent first
ListTestsFirst(index) ==
    index[CHOOSE i \in DOMAIN index :
            \A j \in DOMAIN index :
                \/ index[j].timestamp < index[i].timestamp
                \/ (index[j].timestamp = index[i].timestamp /\ i <= j)]

\* log_test: the summary appended to the index by _add_to_index
IndexAfterLog(index, t, r) ==
    Append(index, [test_id |-> GenerateTestId(t), timestamp |-> t, request |-> r])

\* time passes between two requests
Tick ==
    /\ wall_clock < MaxNow
    /\ wall_clock' = wall_clock + 1
    /\ UNCHANGED <<test_index, metadata_files, responses>>

\* run_inference, an async handler without await: predict_from_csv, which
\* logs the test when log_to_database is set, then list_tests(limit=1)
RunInference(r, log_to_database) ==
    /\ ~responses[r].handled
    /\ wall_clock < MaxNow
    /\ IF log_to_database
       THEN /\ test_index' = IndexAfterLog(test_index, wall_clock, r)
            /\ metadata_files' =
                 [id \in DOMAIN metadata_files \cup {GenerateTestId(wall_clock)} |->
                     IF id = GenerateTestId(wall_clock) THEN r ELSE metadata_files[id]]
            /\ wall_clock' = wall_clock + 1
            /\ responses' = [responses EXCEPT ![r] =
                   [handled |-> TRUE, logged |-> TRUE,
                    test_id |-> ListTestsFirst(test_index').test_id]]
       ELSE /\ responses' = [responses EXCEPT ![r].handled = TRUE]
            /\ UNCHANGED <<wall_clock, test_index, metadata_files>>

TestsIdle ==
    /\ wall_clock = 0
    /\ test_index = << >>
    /\ metadata_files = << >>
    /\ responses = << >>

-----------------------------------------------------------------------------
(* run_ingestion of api.py (and ingest_data of the agent): the shared config *)
(* fields around a call of ingest_sensor_data                                *)

MaxIngestRuns == 2     \* overlapping run_ingestion calls
MaxParamValue == 2     \* request values, in multiples of the configured default

\* settings/configs.py as loaded: DB_TIME_INTERVAL, DB_CHUNK_DURATION,
\* DB_PADDING_DURATION, each as one multiple of itself
DefaultConfig == [time_interval |-> 1, chunk_duration |-> 1, padding |-> 1]

\* the values a request can carry: the default or another value per field
ParamSets == [time_interval : 1..MaxParamValue, chunk_duration : {1, MaxParamValue},
              padding : {1}]

NoParams == [time_interval |-> 0, chunk_duration |-> 0, padding |-> 0]

\* TIME_INTERVAL, CHUNK_DURATION, PADDING_DURATION of ingest_sensor_data.py:
\* names bound once, when the module is imported, to the configured values
ImportedDefaults == DefaultConfig

\* settings/configs.py defines the three names only with the DB_ prefix, so
\* whether the import of ingest_sensor_data succeeds is left open
ConfigInit ==
    /\ db_config = DefaultConfig
    /\ import_ok \in BOOLEAN
    /\ ingest_runs \in [1..MaxIngestRuns ->
                          [pc : {"scheduled"}, request : ParamSets,
                           original : {NoParams}, used : {NoParams}]]

\* the import at the top of run_ingestion raises: nothing else is executed
RunImportFails(r) ==
    /\ ~import_ok
    /\ ingest_runs[r].pc = "scheduled"
    /\ ingest_runs' = [ingest_runs EXCEPT ![r].pc = "failed"]
    /\ UNCHANGED <<db_config, import_ok>>

\* original_interval, original_chunk, original_padding = configs.DB_...
RunSave(r) ==
    /\ import_ok
    /\ ingest_runs[r].pc = "scheduled"
    /\ ingest_runs' = [ingest_runs EXCEPT ![r].pc = "saved", ![r].original = db_config]
    /\ UNCHANGED <<db_config, import_ok>>

\* configs.DB_... = the values of the request
RunSet(r) ==
    /\ ingest_runs[r].pc = "saved"
    /\ db_config' = ingest_runs[r].request
    /\ ingest_runs' = [ingest_runs EXCEPT ![r].pc = "set"]
    /\ UNCHANGED import_ok

\* ingest_sensor_data(folder_path, label): the three parameters are None and
\* take the names bound at import; the call returns or raises
RunIngest(r) ==
    /\ ingest_runs[r].pc = "set"
    /\ ingest_runs' = [ingest_runs EXCEPT ![r].pc = "ran", ![r].used = ImportedDefaults]
    /\ UNCHANGED <<db_config, import_ok>>

\* finally: configs.DB_... = the saved originals
RunRestore(r) ==
    /\ ingest_runs[r].pc = "ran"
    /\ db_config' = ingest_runs[r].original
    /\ ingest_runs' = [ingest_runs EXCEPT ![r].pc = "done"]
    /\ UNCHANGED import_ok

ConfigIdle ==
    /\ db_config = NoParams
    /\ import_ok = FALSE
    /\ ingest_runs = << >>

-----------------------------------------------------------------------------
(* delete_dataset and the raw backup made by ingest_sensor_data *)

MaxIngests == 2        \* ingest_sensor_data calls

\* names of import folders: a stem, alone or after "split_data_"
FolderNames == [prefix : {"", "split_data_"}, stem : {"a", "data"}]

NoSourceFolder == [prefix |-> "", stem |-> ""]

\* raw_database / name, or raw_database / name(k) for k > 0
RawDir(name, k) == [name |-> name, k |-> k]

\* Step 1: the folder name the copy goes to: name, else name(1), name(2), ...
RawImportDir(dirs, name) ==
    IF RawDir(name, 0) \notin DOMAIN dirs
    THEN RawDir(name, 0)
    ELSE RawDir(name, CHOOSE k \in 1..(MaxIngests + 1) :
                        /\ RawDir(name, k) \notin DOMAIN dirs
                        /\ \A j \in 1..(k - 1) : RawDir(name, j) \in DOMAIN dirs)

DeleteInit ==
    /\ datasets = << >>
    /\ raw_dirs = << >>
    /\ ingests = 0
    /\ foreign_removed = {}
    /\ kept_raw_removed = {}

\* ingest_sensor_data(folder, label) with a folder outside raw_database: the
\* label directory, the raw copy, and, unless the call returns before Step 5,
\* metadata.json with source_folder = import_folder.name
IngestFolder(label, folder, with_metadata) ==
    /\ ingests < MaxIngests
    /\ ingests' = ingests + 1
    /\ raw_dirs' = Put(raw_dirs, RawImportDir(raw_dirs, folder), label)
    /\ datasets' = IF with_metadata THEN Put(datasets, label, folder)
                   ELSE IF label \in DOMAIN datasets THEN datasets
                   ELSE Put(datasets, label, NoSourceFolder)
    /\ UNCHANGED <<foreign_removed, kept_raw_removed>>

\* raw_dir of delete_dataset, as a set with at most one folder: the folder
\* named by the metadata if it exists, else split_data_{label}, else {label}
FindRawDir(label, delete_raw) ==
    IF ~delete_raw THEN {}
    ELSE IF /\ datasets[label] # NoSourceFolder
            /\ RawDir(datasets[label], 0) \in DOMAIN raw_dirs
    THEN {RawDir(datasets[label], 0)}
    ELSE IF RawDir([prefix |-> "split_data_", stem |-> label], 0) \in DOMAIN raw_dirs
    THEN {RawDir([prefix |-> "split_data_", stem |-> label], 0)}
    ELSE IF RawDir([prefix |-> "", stem |-> label], 0) \in DOMAIN raw_dirs
    THEN {RawDir([prefix |-> "", stem |-> label], 0)}
    ELSE {}

\* delete_dataset(label, delete_raw) on an existing dataset
DeleteDataset(label, delete_raw) ==
    /\ label \in DOMAIN datasets
    /\ datasets' = Without(datasets, {label})
    /\ raw_dirs' = Without(raw_dirs, FindRawDir(label, delete_raw))
    /\ foreign_removed' = foreign_removed \cup
                            {d \in FindRawDir(label, delete_raw) : raw_dirs[d] # label}
    /\ kept_raw_removed' = IF delete_raw THEN kept_raw_removed
                           ELSE kept_raw_removed \cup FindRawDir(label, delete_raw)
    /\ UNCHANGED ingests

DeleteIdle ==
    /\ datasets = << >>
    /\ raw_dirs = << >>
    /\ ingests = 0 - 1
    /\ foreign_removed = {}
    /\ kept_raw_removed = {}

ServiceIdle == AppendIdle /\ JobsIdle /\ BatchIdle /\ TestsIdle /\ ConfigIdle /\ DeleteIdle

Init == IngestInit /\ InferIdle /\ PadIdle /\ DetectIdle /\ FileIdle /\ MetaIdle
    /\ ApiIdle
    /\ ServiceIdle

Next ==
    \/ \E files \in FileBatches, folder_exists \in BOOLEAN :
            StartRun(files, folder_exists)
                /\ UNCHANGED <<inferVars, padVars, detectVars, fileVars,
                               metaVars, apiVars, serviceVars>>
    \/ ScanExisting
          /\ UNCHANGED <<inferVars, padVars, detectVars, fileVars, metaVars, apiVars, serviceVars>>
    \/ ReadFile
          /\ UNCHANGED <<inferVars, padVars, detectVars, fileVars, metaVars, apiVars, serviceVars>>
    \/ \E outcome \in WriteOutcomes :
            WriteChunk(outcome)
                /\ UNCHANGED <<inferVars, padVars, detectVars, fileVars,
                               metaVars, apiVars, serviceVars>>
    \/ FinishFile
          /\ UNCHANGED <<inferVars, padVars, detectVars, fileVars, metaVars, apiVars, serviceVars>>
    \/ GenerateMetadata
          /\ UNCHANGED <<inferVars, padVars, detectVars, fileVars, metaVars, apiVars, serviceVars>>
    \/ Return
          /\ UNCHANGED <<inferVars, padVars, detectVars, fileVars, metaVars, apiVars, serviceVars>>
    \/ DropForeignFile
          /\ UNCHANGED <<inferVars, padVars, detectVars, fileVars, metaVars, apiVars, serviceVars>>

Spec == Init /\ [][Next]_vars

InitInfer == IngestIdle /\ InferInit /\ PadIdle /\ DetectIdle /\ FileIdle /\ MetaIdle
    /\ ApiIdle
    /\ ServiceIdle

NextInfer ==
    \/ IngestCount
          /\ UNCHANGED <<ingestVars, padVars, detectVars, fileVars, metaVars, apiVars, serviceVars>>
    \/ InterpolateRaw
          /\ UNCHANGED <<ingestVars, padVars, detectVars, fileVars, metaVars, apiVars, serviceVars>>
    \/ SplitChunks
          /\ UNCHANGED <<ingestVars, padVars, detectVars, fileVars, metaVars, apiVars, serviceVars>>
    \/ ProcessChunks
          /\ UNCHANGED <<ingestVars, padVars, detectVars, fileVars, metaVars, apiVars, serviceVars>>

SpecInfer == InitInfer /\ [][NextInfer]_vars

InitScenario == IngestIdle /\ ScenarioInit /\ PadIdle /\ DetectIdle /\ FileIdle /\ MetaIdle
    /\ ApiIdle
    /\ ServiceIdle

SpecScenario == InitScenario /\ [][NextInfer]_vars

InitPad == IngestIdle /\ PadInit /\ DetectIdle /\ FileIdle /\ MetaIdle
    /\ ApiIdle
    /\ ServiceIdle

NextPad ==
    \/ BuildPadded
          /\ UNCHANGED <<ingestVars, inferVars, detectVars, fileVars,
                         metaVars, apiVars, serviceVars>>
    \/ Resample
          /\ UNCHANGED <<ingestVars, inferVars, detectVars, fileVars,
                         metaVars, apiVars, serviceVars>>

SpecPad == InitPad /\ [][NextPad]_vars

InitDetect == IngestIdle /\ InferIdle /\ PadIdle /\ DetectInit /\ FileIdle /\ MetaIdle
    /\ ApiIdle
    /\ ServiceIdle

NextDetect ==
    \/ Detect
          /\ UNCHANGED <<ingestVars, inferVars, padVars, fileVars, metaVars, apiVars, serviceVars>>
    \/ UseStructure
          /\ UNCHANGED <<ingestVars, inferVars, padVars, fileVars, metaVars, apiVars, serviceVars>>

SpecDetect == InitDetect /\ [][NextDetect]_vars

InitFile == IngestIdle /\ InferIdle /\ PadIdle /\ DetectIdle /\ FileInit /\ MetaIdle
    /\ ApiIdle
    /\ ServiceIdle

NextFile ==
    \/ WriteChunkFile
          /\ UNCHANGED <<ingestVars, inferVars, padVars, detectVars,
                         metaVars, apiVars, serviceVars>>
    \/ ReadChunkFile
          /\ UNCHANGED <<ingestVars, inferVars, padVars, detectVars,
                         metaVars, apiVars, serviceVars>>

SpecFile == InitFile /\ [][NextFile]_vars

InitMeta == IngestIdle /\ InferIdle /\ PadIdle /\ DetectIdle /\ FileIdle /\ MetaInit
    /\ ApiIdle
    /\ ServiceIdle

NextMeta ==
    \/ GenerateMetadataCall
          /\ UNCHANGED <<ingestVars, inferVars, padVars, detectVars,
                         fileVars, apiVars, serviceVars>>
    \/ SaveMetadata
          /\ UNCHANGED <<ingestVars, inferVars, padVars, detectVars,
                         fileVars, apiVars, serviceVars>>
    \/ AddChunkFile
          /\ UNCHANGED <<ingestVars, inferVars, padVars, detectVars,
                         fileVars, apiVars, serviceVars>>

SpecMeta == InitMeta /\ [][NextMeta]_vars

InitApi ==
    IngestIdle /\ InferIdle /\ PadIdle /\ DetectIdle /\ FileIdle /\ MetaIdle /\ ApiInit
    /\ ServiceIdle

NextApi ==
    \/ \E r \in 1..MaxRequests :
          IngestData(r)
          /\ UNCHANGED <<ingestVars, inferVars, padVars, detectVars,
                         fileVars, metaVars, serviceVars>>
    \/ \E r \in 1..MaxRequests :
          RunIngestion(r)
          /\ UNCHANGED <<ingestVars, inferVars, padVars, detectVars,
                         fileVars, metaVars, serviceVars>>
    \/ \E r \in 1..MaxRequests :
          FinishIngestion(r)
          /\ UNCHANGED <<ingestVars, inferVars, padVars, detectVars,
                         fileVars, metaVars, serviceVars>>

SpecApi == InitApi /\ [][NextApi]_vars

otherThanAppend == <<pipelineVars, jobVars, batchVars, testVars, configVars, deleteVars>>

InitAppend == PipelineIdle /\ AppendInit /\ JobsIdle /\ BatchIdle /\ TestsIdle /\ ConfigIdle
    /\ DeleteIdle

NextAppend ==
    \/ \E w \in 1..MaxWriters, n \in 1..MaxAppendChunks :
          AppendScan(w, n) /\ UNCHANGED otherThanAppend
    \/ \E w \in 1..MaxWriters : AppendWrite(w) /\ UNCHANGED otherThanAppend
    \/ \E w \in 1..MaxWriters : AppendReturn(w) /\ UNCHANGED otherThanAppend

SpecAppend == InitAppend /\ [][NextAppend]_vars

otherThanJobs == <<pipelineVars, appendVars, batchVars, testVars, configVars, deleteVars>>

InitJobs == PipelineIdle /\ AppendIdle /\ JobsInit /\ BatchIdle /\ TestsIdle /\ ConfigIdle
    /\ DeleteIdle

NextJobs ==
    \/ \E k \in 1..Len(JobSteps) : UpdateJobStep(k) /\ UNCHANGED otherThanJobs
    \/ SaveJobs /\ UNCHANGED otherThanJobs
    \/ EpochBegin /\ UNCHANGED otherThanJobs
    \/ EpochEnd /\ UNCHANGED otherThanJobs
    \/ Complete /\ UNCHANGED otherThanJobs
    \/ RaiseError /\ UNCHANGED otherThanJobs
    \/ Finally /\ UNCHANGED otherThanJobs
    \/ StopCheck /\ UNCHANGED otherThanJobs
    \/ StopFlag /\ UNCHANGED otherThanJobs
    \/ StopSave /\ UNCHANGED otherThanJobs
    \/ AgentLoad /\ UNCHANGED otherThanJobs
    \/ AgentSave /\ UNCHANGED otherThanJobs
    \/ CleanupLoad /\ UNCHANGED otherThanJobs
    \/ CleanupSave /\ UNCHANGED otherThanJobs

SpecJobs == InitJobs /\ [][NextJobs]_vars

\* every thread and handler that can take a step eventually takes one
SpecJobsFair == SpecJobs /\ WF_vars(NextJobs)

otherThanBatch == <<pipelineVars, appendVars, jobVars, testVars, configVars, deleteVars>>

InitBatch == PipelineIdle /\ AppendIdle /\ JobsIdle /\ BatchInit /\ TestsIdle /\ ConfigIdle
    /\ DeleteIdle

NextBatch ==
    \/ PredictOne /\ UNCHANGED otherThanBatch
    \/ PredictBatchReturn /\ UNCHANGED otherThanBatch

SpecBatch == InitBatch /\ [][NextBatch]_vars

otherThanTests == <<pipelineVars, appendVars, jobVars, batchVars, configVars, deleteVars>>

InitTests == PipelineIdle /\ AppendIdle /\ JobsIdle /\ BatchIdle /\ TestsInit /\ ConfigIdle
    /\ DeleteIdle

NextTests ==
    \/ Tick /\ UNCHANGED otherThanTests
    \/ \E r \in 1..MaxTestRequests, log_to_database \in BOOLEAN :
          RunInference(r, log_to_database) /\ UNCHANGED otherThanTests

SpecTests == InitTests /\ [][NextTests]_vars

otherThanConfig == <<pipelineVars, appendVars, jobVars, batchVars, testVars, deleteVars>>

InitConfig ==
    PipelineIdle /\ AppendIdle /\ JobsIdle /\ BatchIdle /\ TestsIdle /\ ConfigInit
    /\ DeleteIdle

NextConfig ==
    \/ \E r \in 1..MaxIngestRuns : RunImportFails(r) /\ UNCHANGED otherThanConfig
    \/ \E r \in 1..MaxIngestRuns : RunSave(r) /\ UNCHANGED otherThanConfig
    \/ \E r \in 1..MaxIngestRuns : RunSet(r) /\ UNCHANGED otherThanConfig
    \/ \E r \in 1..MaxIngestRuns : RunIngest(r) /\ UNCHANGED otherThanConfig
    \/ \E r \in 1..MaxIngestRuns : RunRestore(r) /\ UNCHANGED otherThanConfig

SpecConfig == InitConfig /\ [][NextConfig]_vars

otherThanDelete == <<pipelineVars, appendVars, jobVars, batchVars, testVars, configVars>>

InitDelete ==
    PipelineIdle /\ AppendIdle /\ JobsIdle /\ BatchIdle /\ TestsIdle /\ ConfigIdle
    /\ DeleteInit

NextDelete ==
    \/ \E label \in ApiLabels, folder \in FolderNames, with_metadata \in BOOLEAN :
          IngestFolder(label, folder, with_metadata) /\ UNCHANGED otherThanDelete
    \/ \E label \in ApiLabels, delete_raw \in BOOLEAN :
          DeleteDataset(label, delete_raw) /\ UNCHANGED otherThanDelete

SpecDelete == InitDelete /\ [][NextDelete]_vars

-----------------------------------------------------------------------------
(* Properties of ingest_sensor_data *)

\* the call has passed Step 3
Scanned == pc \in {"file", "chunk", "meta", "done"}

\* the IDs written so far are start, start + 1, ... in this order
ContiguousFrom(start) == written = [k \in 1..Len(written) |-> start + (k - 1)]

\* the files the call has created completely since the scan
NewCompleteFiles == {s \in DOMAIN dir \ DOMAIN pre_dir : dir[s]}

\* C1: in append mode, when the scan found numeric suffixes with maximum M, the
\* k chunks the call has written carry exactly the IDs M+1 .. M+k, in order and
\* without repetition, they are exactly the chunk files the call created, and
\* no file the scan saw has been written to.
C1_AppendIdsContiguous ==
    (Scanned /\ append_mode /\ ExistingNumbers(pre_dir) # {}) =>
        LET M == SetMax(ExistingNumbers(pre_dir)) IN
        /\ ContiguousFrom(M + 1)
        /\ NewCompleteFiles = {FormatCounter(M + k) : k \in 1..Len(written)}
        /\ Cardinality(NewCompleteFiles) = Len(written)
        /\ \A s \in DOMAIN pre_dir : s \in DOMAIN dir /\ dir[s] = pre_dir[s]

\* C1 witness: an append call that found chunks up to ID 2 or more has written
\* two chunks of its own
C1_Witness ==
    /\ pc = "done"
    /\ append_mode
    /\ ExistingNumbers(pre_dir) # {}
    /\ SetMax(ExistingNumbers(pre_dir)) >= 2
    /\ Len(written) = 2

\* C2: the starting chunk ID is one more than the largest numeric suffix the
\* scan found when APPEND_MODE is set and some suffix is numeric (that largest
\* suffix is starting_counter - 1, and no numeric suffix reaches
\* starting_counter), and it is 1 in every other case.
C2_StartingCounter ==
    Scanned =>
        IF append_mode /\ (\E s \in DOMAIN pre_dir : IsNumber(s))
        THEN /\ \E s \in DOMAIN pre_dir : IsNumber(s) /\ ParseDigits(s) = starting_counter - 1
             /\ \A s \in DOMAIN pre_dir : IsNumber(s) => ParseDigits(s) < starting_counter
        ELSE starting_counter = 1

\* C2 witness: an append call that found a file with a non-numeric suffix next
\* to chunks up to ID 2 or more, and started right after the largest ID
C2_Witness ==
    /\ pc = "done"
    /\ append_mode
    /\ ForeignSuffix \in DOMAIN pre_dir
    /\ ExistingNumbers(pre_dir) # {}
    /\ starting_counter = SetMax(ExistingNumbers(pre_dir)) + 1
    /\ starting_counter >= 3
    /\ written # << >>

\* the label directory holds nothing but completely written chunk files
OnlyCompleteChunks == \A s \in DOMAIN dir : IsNumber(s) /\ dir[s]

\* C3: after a label was ingested twice in overwrite mode, the label directory
\* holds as many chunk files as the second call wrote (stated for two calls
\* that both wrote chunks and met no write failure).
C3_OverwriteCountIsSecondRun ==
    (/\ ~append_mode
     /\ runs = 2
     /\ pc = "done"
     /\ prev_run # NoRun
     /\ prev_run.outcome = "done"
     /\ prev_run.nwritten >= 1
     /\ written # << >>
     /\ OnlyCompleteChunks) =>
        Cardinality(DOMAIN dir) = Len(written)

\* a step in which writing a chunk raised
WriteFailed ==
    /\ pc = "chunk"
    /\ Len(file_log') = Len(file_log) + 1
    /\ file_log'[Len(file_log')].status = "error"

\* C4 as claimed: a failure while writing one chunk skips only that chunk, so
\* when chunks of the same source file remain the loop stays on that file
\* with the counter unchanged.
C4_FailureSkipsOnlyChunk ==
    [][(WriteFailed /\ chunk_i + 1 < num_chunks) =>
          (chunk_counter' = chunk_counter /\ file_idx' = file_idx /\ pc' = "chunk")]_vars

\* every source file the loop has left: either it was skipped or raised on
\* reading, or it wrote all its chunks, or a write failure cut it short
FilesAccounted ==
    \A i \in 1..Len(file_log) :
        LET r == FileChunks(csv_files[i], DB_CHUNK_DURATION) IN
        IF r.status # "ok" THEN file_log[i] = r
        ELSE \/ file_log[i] = r
             \/ file_log[i].status = "error" /\ file_log[i].chunks < r.chunks

RECURSIVE SumChunks(_)
SumChunks(log) ==
    IF log = << >> THEN 0 ELSE log[1].chunks + SumChunks(Tail(log))

C4_State ==
    Scanned =>
        /\ ContiguousFrom(starting_counter)
        /\ chunk_counter = starting_counter + Len(written)
        /\ FilesAccounted
        /\ pc \in {"meta", "done"} =>
              /\ Len(file_log) = Len(csv_files)
              /\ Len(written) = SumChunks(file_log)

\* C4 amended: a failure while writing one chunk leaves the counter where it
\* was and ends the current source file (its remaining chunks are not
\* written); every later source file is still processed, and the chunks
\* written after the failure continue with the failed chunk's ID, so the IDs
\* of the call stay contiguous.
C4_FailureEndsFile ==
    [][/\ WriteFailed => /\ chunk_counter' = chunk_counter
                         /\ written' = written
                         /\ file_idx' = file_idx + 1
                         /\ pc' = AfterFile(file_idx)
       /\ C4_State']_vars

\* C4 witness: a write failed on the first chunk of a two-chunk file, and the
\* next source file wrote its chunks after it
C4_Witness ==
    /\ pc = "done"
    /\ \E i \in 1..(Len(file_log) - 1) :
          /\ file_log[i] = [status |-> "error", chunks |-> 0]
          /\ FileChunks(csv_files[i], DB_CHUNK_DURATION).chunks = 2
          /\ file_log[i + 1].status = "ok"
          /\ file_log[i + 1].chunks >= 1
    /\ written # << >>

\* the source files of the call that are fit to produce chunks
ValidFiles == {i \in 1..Len(csv_files) :
                  FileChunks(csv_files[i], DB_CHUNK_DURATION).status = "ok"}

\* C5: a call on an existing folder whose batch holds one malformed file next
\* to valid ones ends without raising, with the chunks of the valid files
\* written and the metadata saved, wherever the malformed file stands.
C5_BatchNeverFailsWholesale ==
    (/\ pc \in {"done", "raised"}
     /\ Len(csv_files) >= 2
     /\ Cardinality({i \in 1..Len(csv_files) : ~csv_files[i].readable}) = 1
     /\ Cardinality(ValidFiles) = Len(csv_files) - 1
     /\ \A i \in 1..Len(file_log) : i \in ValidFiles => file_log[i].status = "ok") =>
        /\ pc = "done"
        /\ metadata # NoMetadata
        /\ metadata.total_chunks = Len(written)

\* C6: source_files_count is the number of source files that produced chunks
\* (stated for a call that wrote chunks).
C6_SkippedFilesNotCounted ==
    (pc = "done" /\ written # << >>) =>
        metadata.source_files_count =
            Cardinality({i \in 1..Len(file_log) : file_log[i].chunks > 0})

\* C7: after a call, total_chunks is the number of chunk files in the label
\* directory (stated for append mode, a call that wrote chunks, and a
\* directory of completely written chunk files only).
C7_TotalChunksIsFileCount ==
    (pc = "done" /\ append_mode /\ written # << >> /\ OnlyCompleteChunks) =>
        metadata.total_chunks = Cardinality(DOMAIN dir)

-----------------------------------------------------------------------------
(* Properties of the inference pipeline *)

Split == ipc \in {"stage2", "failed", "done"}

\* C8: split_into_chunks never returns an empty list: with s = samples_per_chunk
\* >= 1 on a coarse series of n samples it raises when floor(n/s) = 0 and
\* otherwise returns exactly floor(n/s) >= 1 chunks, chunk i being samples
\* [i*s, (i+1)*s).
C8_SplitNeverEmpty ==
    Split =>
        /\ ~chunks.raised => chunks.list # << >>
        /\ LET s == infer_cd \div time_interval
               n == coarse_len
           IN (s >= 1 /\ n >= 2) =>
                IF n \div s = 0
                THEN chunks.raised
                ELSE /\ ~chunks.raised
                     /\ Len(chunks.list) = n \div s
                     /\ Len(chunks.list) >= 1
                     /\ \A i \in 1..Len(chunks.list) :
                           chunks.list[i] = [start |-> (i - 1) * s, stop |-> i * s]

\* C8 witness: a coarse series that is no multiple of samples_per_chunk was
\* split into two or more chunks
C8_Witness ==
    /\ ipc = "done"
    /\ ~chunks.raised
    /\ Len(chunks.list) >= 2
    /\ coarse_len % (infer_cd \div time_interval) # 0

\* the coarse grid has the length exact arithmetic gives it
ExactCoarseLen == coarse_len = CeilDiv((raw_n - 1) * raw_dt, time_interval)

\* C9: for the same series and parameters the ingestion path and the
\* inference path produce the same number of chunks (stated for a series
\* the inference path accepts).
C9_SameChunkCount ==
    (Split /\ ExactCoarseLen /\ ~chunks.raised) =>
        ingest_count = Len(chunks.list)

\* Python's round(a / b) for a >= 0, b > 0: to nearest, ties to even
RoundHalfEven(a, b) ==
    LET q == a \div b
        r == a % b
    IN IF 2 * r < b THEN q
       ELSE IF 2 * r > b THEN q + 1
       ELSE IF q % 2 = 0 THEN q ELSE q + 1

\* C10: every waveform process_chunks returns has length
\* round((chunk_duration + 2 * padding_duration) * sampling_rate).
C10_WaveformLengthIsRound ==
    ipc = "done" =>
        \A k \in 1..Len(waveform_lens) :
            waveform_lens[k] =
                RoundHalfEven((infer_cd + 2 * infer_pd) * sampling_rate, TicksPerSecond)

-----------------------------------------------------------------------------
(* Properties of the padded chunks *)

\* np.arange gave split_into_chunks the start padding its exact length
ExactStartPadding == padded.nstart = CeilDiv(infer_pd, time_interval)

\* C11: after Stage-2 resampling of a padded chunk, every output sample whose
\* time lies in [0, padding_duration) or after padding_duration +
\* chunk_duration is 0, whatever the data region starts with (stated for a
\* start padding of exactly ceil(padding_duration / time_interval) anchors).
C11_PaddingResamplesToZero ==
    (ppc = "resampled" /\ ExactStartPadding) =>
        \A k \in 1..Len(stage2) :
            (\/ (k - 1) * TicksPerSecond < infer_pd * sampling_rate
             \/ (k - 1) * TicksPerSecond > (infer_pd + infer_cd) * sampling_rate)
            => stage2[k].num = 0

\* C12: at both call sites each padding region of a chunk holds at least two
\* zero anchor points (stated for a positive padding_duration).
C12_TwoAnchorsPerPadding ==
    (ppc \in {"padded", "resampled"} /\ infer_pd > 0) =>
        (padded.nstart >= 2 /\ padded.nend >= 2)

\* the fraction v lies in [-1, 1]
WithinUnit(v) == Abs(v).num <= v.den

\* C13: normalize_data returns its input unchanged when every value is 0, and
\* otherwise returns values all within [-1, 1] of which one has the absolute
\* value 1, each the input value divided by the largest absolute input value.
C13_NormalizedToUnitRange ==
    ppc = "resampled" =>
        IF \A k \in 1..Len(stage2) : stage2[k].num = 0
        THEN normalized = stage2
        ELSE /\ Len(normalized) = Len(stage2)
             /\ \A k \in 1..Len(normalized) : WithinUnit(normalized[k])
             /\ \E k \in 1..Len(normalized) : Abs(normalized[k]).num = normalized[k].den
             /\ \E m \in 1..Len(stage2) : \A k \in 1..Len(stage2) :
                    /\ Abs(stage2[k]).num * stage2[m].den
                          <= Abs(stage2[m]).num * stage2[k].den
                    /\ normalized[k].num * stage2[k].den * Abs(stage2[m]).num
                          = stage2[k].num * stage2[m].den * normalized[k].den

\* C13 witness: the largest absolute value of the waveform was negative and
\* became -1, next to a positive value that stayed below 1
C13_Witness ==
    /\ ppc = "resampled"
    /\ \E k \in 1..Len(normalized) :
          normalized[k].num < 0 /\ 0 - normalized[k].num = normalized[k].den
    /\ \E k \in 1..Len(normalized) :
          normalized[k].num > 0 /\ normalized[k].num < normalized[k].den

-----------------------------------------------------------------------------
(* The end-to-end scenario *)

\* 20 s of samples at 100 Hz, time_interval 0.1, chunk_duration 8.0,
\* padding_duration 1.0, target rate 1600
Scenario ==
    /\ raw_n = 2000
    /\ time_interval = 10
    /\ infer_cd = 800
    /\ infer_pd = 100
    /\ sampling_rate = SamplesPerCentisecond * TicksPerSecond

\* C14: the scenario never fails, its coarse series has 200 samples, it is cut
\* into exactly 2 chunks of 80 samples each, and each output waveform has
\* 16000 samples.
C14_ScenarioNumbers ==
    Scenario =>
        /\ ipc # "failed"
        /\ ipc \in {"split", "stage2", "done"} => coarse_len = 200
        /\ ipc \in {"stage2", "done"} =>
              /\ Len(chunks.list) = 2
              /\ \A k \in 1..2 : chunks.list[k].stop - chunks.list[k].start = 80
        /\ ipc = "done" =>
              /\ Len(waveform_lens) = 2
              /\ \A k \in 1..2 : waveform_lens[k] = 16000

\* C14 witness: the scenario has run to its end
C14_Witness == Scenario /\ ipc = "done" /\ Len(waveform_lens) = 2

-----------------------------------------------------------------------------
(* Properties of structure detection *)

\* detect_csv_structure has returned
Detected == dpc \in {"detected", "step3"}

\* the detector answered with JSON that was validated
Validated == Detected /\ detector.kind = "answer" /\ sample_file.readable

\* the validated integer a field of the answer stands for, or -1 for none
AnswerInt(v) == IF v.kind = "int" THEN Clamp(v.val) ELSE 0 - 1

\* C15: every structure detect_csv_structure returns, by the detector path,
\* the fallback path or the hard default, has values_column # time_column.
C15_ColumnsDiffer == Detected => structure.values_column # structure.time_column

\* C15 witness: the detector gave the same index for both columns
C15_Witness ==
    /\ Validated
    /\ AnswerInt(detector.answer.time_column) >= 0
    /\ AnswerInt(detector.answer.time_column) = AnswerInt(detector.answer.values_column)

\* C16: for every answer of the detector, the validated structure has
\* skip_rows, time_column and values_column within 0..100.
C16_FieldsWithinCap ==
    Validated =>
        /\ structure.skip_rows \in 0..ColumnCap
        /\ structure.time_column \in 0..ColumnCap
        /\ structure.values_column \in 0..ColumnCap

\* C17: whatever the detector does, detect_csv_structure returns a structure
\* with the four keys skip_rows, time_column, values_column, values_label,
\* holding integers that are not negative and a label that is not blank, and
\* ingest_sensor_data goes on to Step 3 with that structure.
C17_DetectionNeverFatal ==
    /\ Detected =>
          /\ DOMAIN structure = {"skip_rows", "time_column", "values_column", "values_label"}
          /\ structure.skip_rows \in Nat
          /\ structure.time_column \in Nat
          /\ structure.values_column \in Nat
          /\ structure.values_label \notin {"missing", " "}
    /\ dpc = "detected" => ENABLED UseStructure
    /\ dpc = "step3" => columns = structure

\* C17 witness: the detector failed on a readable file, or left keys out, and
\* the ingestion is at Step 3
C17_Witness ==
    /\ dpc = "step3"
    /\ sample_file.readable
    /\ \/ detector.kind \in DetectorFailures
       \/ detector.kind = "answer" /\ detector.answer = NoAnswer

-----------------------------------------------------------------------------
(* Properties of the chunk file *)

\* C18: a chunk file of a label line, a header line and n data rows is read
\* back by process_csv_file as that label and exactly the n rows the writer
\* formatted, in order: no data row is dropped and no header line is read as
\* data.
C18_ChunkFileRoundTrip ==
    fpc = "read" =>
        /\ read_back.label = chunk_label
        /\ Len(read_back.pairs) = Len(chunk_rows)
        /\ \A k \in 1..Len(chunk_rows) :
              /\ DOMAIN read_back.pairs[k] = {"t", "v"}
              /\ read_back.pairs[k].t = Format6(chunk_rows[k].t)
              /\ read_back.pairs[k].v = Format6(chunk_rows[k].v)

\* C18 witness: a file of two or more rows, the first two different, under a
\* label with a blank inside, was written and read back
C18_Witness ==
    /\ fpc = "read"
    /\ Len(chunk_rows) >= 2
    /\ chunk_rows[1] # chunk_rows[2]
    /\ Len(chunk_label) > 1
    /\ Len(read_back.pairs) = Len(chunk_rows)

-----------------------------------------------------------------------------
(* Properties of the metadata *)

\* the fields of a metadata dict other than the timestamp
WithoutTimestamp(m) == [k \in DOMAIN m \ {"generated_at"} |-> m[k]]

\* C19: two calls of generate_database_metadata with the same arguments that
\* saw the same chunk files return the same value for every field except
\* generated_at, and metadata.json holds exactly the result that was saved
\* last, nothing of an earlier one.
C19_MetadataIdempotent ==
    /\ \A i, j \in 1..Len(meta_calls) :
          meta_calls[i].sizes = meta_calls[j].sizes =>
              WithoutTimestamp(meta_calls[i].result) = WithoutTimestamp(meta_calls[j].result)
    /\ metadata_json # NoMetadata =>
          \E i \in 1..Len(meta_calls) : metadata_json = meta_calls[i].result

\* C19 witness: two calls on the same chunk files with a save in between, the
\* second result saved over the first
C19_Witness ==
    /\ Len(meta_calls) >= 2
    /\ meta_calls[1].sizes = meta_calls[2].sizes
    /\ meta_calls[1].sizes # << >>
    /\ meta_calls[1].result.generated_at # meta_calls[2].result.generated_at
    /\ metadata_json = meta_calls[2].result

-----------------------------------------------------------------------------
(* Properties of POST /api/ingest *)

\* the requests whose ingestion run is executing on this label
RunningOn(label) ==
    {r \in DOMAIN requests : requests[r].label = label /\ requests[r].state = "running"}

\* C20: a request whose label already names a dataset is rejected before any
\* processing, so that no two ingestion runs execute on one label at the same
\* time.
C20_OneRunPerLabel == \A label \in ApiLabels : Cardinality(RunningOn(label)) <= 1

-----------------------------------------------------------------------------
(* Properties of concurrent append-mode runs *)

\* two runs took the same starting ID and one replaced a chunk file of the other
SameStartOverwrite ==
    \E w \in DOMAIN writers, o \in DOMAIN writers :
        /\ w # o
        /\ writers[w].start = writers[o].start
        /\ writers[w].start > 0
        /\ FormatCounter(writers[w].start) \in overwritten

\* C21: chunk-ID allocation by directory scan is safe for a single writer
\* (runs that do not overlap never replace a chunk file) and unsafe for
\* concurrent writers (a replaced chunk file means two runs overlapped; the
\* witness shows two runs with one starting ID, one overwriting the other).
C21_OverwriteOnlyWhenConcurrent == overwritten # {} => overlapped

C21_Witness == SameStartOverwrite /\ overlapped

-----------------------------------------------------------------------------
(* Properties of the training job table *)

\* no read-modify-write of the table or of the file is under way
Quiescent ==
    /\ ~trainer.unsaved
    /\ ~agent.loaded
    /\ cleanup.pc # "loaded"
    /\ stopper.pc # "flagged"

\* C22: every read-modify-write of the job table is done under the job lock,
\* so no status update is lost or replaced by stale data: whenever no update
\* is under way, training_jobs.json holds for every job that was not deleted
\* the status its last update set.
C22_NoLostUpdate ==
    Quiescent =>
        \A j \in DOMAIN latest \ deleted :
            j \in DOMAIN jobs_file /\ jobs_file[j] = latest[j]

\* C23: once stop_training has accepted a stop request and flagged the job,
\* the job reaches a terminal status and its entry in the stop-flag table is
\* removed.
C23_StopFlagRemoved ==
    (ApiJob \in stop_requested)
        ~> (training_jobs[ApiJob] \in TerminalStatuses /\ ApiJob \notin stop_requested)

\* C29: once the status of a job is "error" it never changes again.
C29_ErrorIsAbsorbing ==
    [][training_jobs[ApiJob] = "error" => training_jobs'[ApiJob] = "error"]_vars

-----------------------------------------------------------------------------
(* Properties of predict_batch *)

\* result k belongs to file k: an error record exactly when the file raised
ResultOf(k) ==
    /\ results[k].source_file = csv_paths[k].name
    /\ (results[k].status = "error") = (csv_paths[k].outcome # "ok")
    /\ results[k].status = "error" => results[k].error = csv_paths[k].outcome

\* C24: predict_batch returns exactly one result per input path, in input
\* order; a file that raises contributes an error record with the message
\* and the source file, and the files after it are still processed.
C24_OneResultPerPath ==
    /\ batch_pos >= 0 =>
          Len(results) = (IF batch_pos > Len(csv_paths) THEN Len(csv_paths) ELSE batch_pos)
    /\ \A k \in 1..Len(results) : ResultOf(k)

\* returned: a raising file in the middle, a good file after it
C24_Witness ==
    /\ batch_pos = Len(csv_paths) + 1
    /\ Len(csv_paths) = MaxBatch
    /\ csv_paths[1].outcome = "ok"
    /\ csv_paths[2].outcome # "ok"
    /\ results[3].status = "ok"

-----------------------------------------------------------------------------
(* Properties of the test database *)

\* C25: any two log_test calls yield different test ids, so a later call
\* never overwrites the metadata file of an earlier test, also when both are
\* made within one clock second.
C25_TestIdsUnique ==
    \A i \in DOMAIN test_index, j \in DOMAIN test_index :
        i # j => test_index[i].test_id # test_index[j].test_id

\* the index entry the request r logged
EntryOf(r) == CHOOSE k \in DOMAIN test_index : test_index[k].request = r

\* C30: with log_to_database set, the test_id of the response is the id of
\* the test that the same request logged, whatever the order of the requests.
C30_ResponseNamesOwnTest ==
    \A r \in DOMAIN responses :
        responses[r].logged =>
            /\ \E k \in DOMAIN test_index : test_index[k].request = r
            /\ responses[r].test_id = test_index[EntryOf(r)].test_id

\* every request logged a test, on top of an older one
C30_Witness ==
    /\ Len(test_index) = MaxTestRequests + 1
    /\ \A r \in DOMAIN responses : responses[r].logged
    /\ responses[MaxTestRequests].test_id # responses[1].test_id

-----------------------------------------------------------------------------
(* Properties of run_ingestion *)

\* C26: after every run_ingestion call has finished, the three shared config
\* fields hold the values they had before the first call, for every
\* interleaving of overlapping calls.
C26_ConfigRestored ==
    (\A r \in DOMAIN ingest_runs : ingest_runs[r].pc \in {"done", "failed"})
        => db_config = DefaultConfig

\* C27: an ingestion started by run_ingestion chunks the data with the
\* time_interval, chunk_duration and padding of its request.
C27_RequestValuesUsed ==
    \A r \in DOMAIN ingest_runs :
        ingest_runs[r].pc \in {"ran", "done"} => ingest_runs[r].used = ingest_runs[r].request

-----------------------------------------------------------------------------
(* Properties of delete_dataset *)

\* C28: delete_dataset(label, delete_raw=True) removes at most the raw backup
\* that the ingestion of the same label created, never the raw backup of
\* another dataset; with delete_raw=False no raw folder is removed.
C28_OnlyOwnRawRemoved == foreign_removed = {} /\ kept_raw_removed = {}

====
